---- MODULE Spec2Model ----
(***************************************************************************)
(* Batching log export pipeline of opentelemetry-sdk:                      *)
(*   BatchLogProcessor (logs/log_processor.rs): producer-facing emit,      *)
(*   force_flush, shutdown, set_resource; the single background worker     *)
(*   with its message loop; export_with_timeout.                           *)
(*   CustomThreadRuntime (thread_runtime.rs): its message channel, its     *)
(*   blocking delay and its blocking interval/receiver streams.            *)
(*   SimpleLogProcessor (logs/log_processor.rs): emit, force_flush,        *)
(*   shutdown and set_resource called by concurrent threads, with the      *)
(*   exporter behind a Mutex.                                              *)
(*   LogManager (demo_code.rs): the chain of processors with emit_all,     *)
(*   force_flush_all and shutdown_all.                                     *)
(* The Tokio runtimes (crate::runtime) are not part of the sources at      *)
(* hand; their bounded channel is modelled from the specification.         *)
(***************************************************************************)
EXTENDS Integers, Sequences, FiniteSets, TLC

\* ---------------------------------------------------------------- bounds
\* number of records the producers emit in one behaviour
MaxRecords == 2
\* number of force_flush / shutdown / set_resource calls in one behaviour
MaxCalls == 2
\* values given to BatchConfigBuilder::with_max_queue_size and
\* with_max_export_batch_size
ReqQueueSize == 2
ReqBatchSize == 2
\* number of records emitted under LiveSpec
LiveRecords == 1
\* number of calls made on the SimpleLogProcessor in one behaviour
MaxSimpleCalls == 3
\* longest chain of processors of a LogManager
MaxProcessors == 3
\* number of calls made on the LogManager in one behaviour
MaxChainCalls == 2
\* number of with_* calls made on one BatchConfigBuilder
MaxWithCalls == 2
\* most worker threads of a CustomThreadRuntime
MaxThreads == 2
\* most BatchLogProcessors built on one CustomThreadRuntime
MaxPoolProcessors == 3
\* the CAPACITY of the AtomicCircularBuffer
CAPACITY == 3
\* number of push calls made on one AtomicCircularBuffer
MaxPushes == 3
\* number of buckets of a ValueMap (256 in the code): the last one is the
\* overflow bucket, which attribute sets hashing to it share
BUCKET_COUNT == 2
\* number of measure calls made on one Sum
MaxMeasures == 3
\* number of delta() collections made on one Sum
MaxDeltas == 2

\* the caller threads
Callers == {"A", "B"}
\* the runtimes a BatchLogProcessor can be built on
Runtimes == {"Tokio", "CustomThread"}
\* exporters: one whose export completes (Ok or Err), one whose export
\* future stays pending forever
ExporterKinds == {"completes", "never"}
\* the threads calling a SimpleLogProcessor
Threads == {"T1", "T2", "T3"}

Min(a, b) == IF a < b THEN a ELSE b

\* ------------------------------------------------------------ BatchConfig
\* a build that keeps the batch size it was given
BuildMaxExportBatchSize_unclamped(batch, queueSize) == batch

\* BatchConfigBuilder::build
BuildMaxExportBatchSize(batch, queueSize) == Min(batch, queueSize)

\* the BatchConfig built from the values given to the builder
BuildConfig(queueSize, batch) ==
    [max_queue_size |-> queueSize,
     max_export_batch_size |-> BuildMaxExportBatchSize(batch, queueSize)]

VARIABLES
    runtime,        \* the runtime R the processor was built on
    exporterKind,   \* the exporter handed to BatchLogProcessor::new
    queue,          \* messages sent on message_sender, not yet received
    closed,         \* message_receiver has been dropped
    tickPending,    \* the ticker stream has an item ready
    turn,           \* stream::select: the stream polled first next time
    logs,           \* the worker's Vec of pending logs
    wpc,            \* position of the worker in its loop
    cur,            \* the message the worker is handling
    result,         \* the worker's local `result` while it handles Shutdown
    exportDone,     \* outcome produced by the exporter for the export in flight
    timerFired,     \* runtime.delay(max_export_timeout) has elapsed
    exportCalls,    \* history of exporter.export calls (batch and trigger)
    lastExport,     \* the latest export_with_timeout: whose it was, its result
    shutdownCalls,  \* number of exporter.shutdown calls
    exporterRes,    \* resource last given to exporter.set_resource
    errSink,        \* errors given to global::handle_error
    cpc,            \* position of each caller
    reply,          \* oneshot reply channel of each caller
    ret,            \* what the last call of each caller returned
    atCall,         \* what the channel had accepted when the call was made
    nextRec,        \* next record to emit
    ncalls,         \* number of control calls made
    enq,            \* records accepted by the channel, with their sender
    sdRet,          \* strongest outcome of the shutdown calls that returned
    late,           \* records emitted after a shutdown call had completed
    config,         \* the BatchConfig handed to BatchLogProcessor::new
    processor,      \* what is in use: "Batch", "Simple" or the "Chain"
    is_shutdown,    \* SimpleLogProcessor.is_shutdown
    exporterLock,   \* holder of SimpleLogProcessor.exporter (the Mutex)
    spc,            \* position of each thread in its SimpleLogProcessor call
    sCur,           \* the record each thread is emitting
    sActive,        \* exporter methods in execution: <<thread, method>>
    sExports,       \* history of the exporter.export calls
    sShutdownCalls, \* number of exporter.shutdown calls
    sExporterRes,   \* resource last given to exporter.set_resource
    sErr,           \* errors given to global::handle_error
    sRet,           \* what the last call of each thread returned
    sNextRec,       \* next record to emit
    sCalls,         \* number of calls made
    processors,     \* LogManager.processors
    cop,            \* the LogManager call in progress
    cpos,           \* the place of its `for processor in &self.processors`
    data,           \* the record handed to emit_all: its attributes
    observed,       \* what each processor was given in the latest emit_all
    invoked,        \* processors called in the latest force_flush/shutdown_all
    cret,           \* what the last LogManager call returned
    cCalls,         \* number of calls made on the LogManager
    env,            \* the environment: what env::var gives for each variable
    builder,        \* the BatchConfigBuilder being configured
    built,          \* the BatchConfig that build() returned
    builtBy,        \* the call that made it
    nwith,          \* number of with_* calls made on the builder
    num_threads,    \* CustomThreadRuntime::new(num_threads)
    task_queue,     \* WorkerPool: tasks sent on task_sender, not yet received
    thread_task,    \* the task each worker thread is inside block_on of
    pworker,        \* the worker task of each BatchLogProcessor of the pool
    pcall,          \* the control call under way on each of these processors
    item_kind,      \* the T of AtomicCircularBuffer<T, CAPACITY>
    cb_writers,     \* number of threads that call push
    cb_head,        \* AtomicCircularBuffer.head, as the index of its node
    cb_tail,        \* AtomicCircularBuffer.tail, as the index of its node
    cb_data,        \* Node.data of every node
    cb_pc,          \* where each thread is inside push or pop
    cb_loc,         \* the locals of each thread: head or tail, data, argument
    cb_ret,         \* what the last push or pop of each thread returned
    cb_pushed,      \* the items whose push returned Ok, in that order
    cb_popped,      \* the items pop returned, in that order
    next_item,      \* the next item a writer pushes
    sum_buckets,            \* ValueMap.buckets: per bucket the map attrs -> sum
    has_no_value_attribute_value,   \* ValueMap flag of the same name
    no_attribute_value,     \* ValueMap: the sum recorded without attributes
    total_unique_entries,   \* ValueMap counter of the same name (a usize)
    drain_lock,             \* ValueMap.drain_lock: its readers and its writer
    sum_pc,                 \* where each thread is inside measure or delta
    sum_loc,                \* the locals of each thread
    cycles,                 \* per finished delta() the sum of its data points
    next_measure,           \* number of the next measure call
    dirty                   \* a measure call began since the last delta() that
                            \* started with no measure call under way

\* the state of the BatchLogProcessor, its worker and its callers
batchVars == <<queue, closed, tickPending, turn, logs, wpc,
               cur, result, exportDone, timerFired, exportCalls, lastExport,
               shutdownCalls, exporterRes, errSink, cpc, reply, ret, atCall,
               nextRec, ncalls, enq, sdRet, late>>

\* the state of the SimpleLogProcessor and its callers
simpleVars == <<is_shutdown, exporterLock, spc, sCur, sActive, sExports,
                sShutdownCalls, sExporterRes, sErr, sRet, sNextRec, sCalls>>

\* the state of the LogManager and its caller
chainVars == <<processors, cop, cpos, data, observed, invoked, cret, cCalls>>

\* the state of a BatchConfigBuilder, its environment and its product
builderVars == <<env, builder, built, builtBy, nwith>>

\* a CustomThreadRuntime, its WorkerPool and the processors built on it
poolVars == <<num_threads, task_queue, thread_task, pworker, pcall>>

\* an AtomicCircularBuffer, the threads using it and what they observed
cbVars == <<item_kind, cb_writers, cb_head, cb_tail, cb_data, cb_pc, cb_loc,
            cb_ret, cb_pushed, cb_popped, next_item>>

\* a Sum aggregator, the threads measuring and collecting, and what the
\* collections reported
sumVars == <<sum_buckets, has_no_value_attribute_value, no_attribute_value,
             total_unique_entries, drain_lock, sum_pc, sum_loc, cycles,
             next_measure, dirty>>

\* what no call on the BatchLogProcessor and no step of its worker changes
otherVars == <<config, processor, simpleVars, chainVars, builderVars, poolVars,
               cbVars, sumVars>>

vars == <<runtime, exporterKind, batchVars, otherVars>>

max_queue_size == config.max_queue_size
max_export_batch_size == config.max_export_batch_size

\* ------------------------------------------------------------ BatchMessage
ExportLog(r, c) == [type |-> "ExportLog", rec |-> r, ch |-> c, id |-> 0]
Flush(c, k) == [type |-> "Flush", rec |-> 0, ch |-> c, id |-> k]
Shutdown(c, k) == [type |-> "Shutdown", rec |-> 0, ch |-> c, id |-> k]
SetResource(k) == [type |-> "SetResource", rec |-> 0, ch |-> "None", id |-> k]
\* the ticker maps every tick to Flush(None)
TickMessage == Flush("None", 0)
NoMessage == [type |-> "None", rec |-> 0, ch |-> "None", id |-> 0]

\* ---------------------------------------------------------------- channel
\* a send that does not notice that the receiver is gone
CustomSender_send_unchecked(q, isClosed) == "Ok"

\* CustomSender::try_send on the std mpsc channel made by
\* CustomThreadRuntime::batch_message_channel (capacity is ignored)
CustomSender_try_send(q, isClosed) ==
    IF isClosed THEN "ChannelClosed" ELSE "Ok"

\* try_send of the bounded channel of the Tokio runtimes
TokioSender_try_send(q, isClosed) ==
    IF isClosed THEN "ChannelClosed"
    ELSE IF Len(q) >= max_queue_size THEN "ChannelFull"
    ELSE "Ok"

try_send(q, isClosed) ==
    IF runtime = "CustomThread" THEN CustomSender_try_send(q, isClosed)
    ELSE TokioSender_try_send(q, isClosed)

\* the resources of the SetResource messages in q, which the worker has
\* still to hand to the exporter
PendingResources(q) ==
    {q[i].id : i \in {j \in DOMAIN q : q[j].type = "SetResource"}}

\* the records accepted so far that caller c sent
EnqueuedBy(c) == {e[1] : e \in {x \in enq : x[2] = c}}
EnqueuedAll == {e[1] : e \in enq}

\* the records handed to exporter.export so far
RECURSIVE SeqToSet(_)
SeqToSet(s) == IF s = <<>> THEN {} ELSE {Head(s)} \cup SeqToSet(Tail(s))
Handed == UNION {SeqToSet(exportCalls[i].batch) : i \in DOMAIN exportCalls}

\* Running -> ShuttingDown -> Terminated
WorkerState ==
    IF wpc = "done" THEN "Terminated"
    ELSE IF cur.type = "Shutdown" THEN "ShuttingDown"
    ELSE "Running"

NoRet == [op |-> "none", id |-> 0, val |-> "Unit"]
NoCall == [pend |-> {}, running |-> TRUE]
NoExport == [id |-> 0, n |-> 0, res |-> "None"]
NoSimpleRet == [op |-> "none", rec |-> 0, val |-> "Unit"]

\* SimpleLogProcessor::new, no call made yet
SimpleFields ==
    /\ is_shutdown = FALSE
    /\ exporterLock = "None"
    /\ spc = [t \in Threads |-> "idle"]
    /\ sCur = [t \in Threads |-> 0]
    /\ sActive = {}
    /\ sExports = <<>>
    /\ sShutdownCalls = 0
    /\ sExporterRes = 0
    /\ sErr = {}
    /\ sRet = [t \in Threads |-> NoSimpleRet]
    /\ sNextRec = 1
    /\ sCalls = 0

\* the processors a chain can hold: whether emit changes the record, and
\* what force_flush and shutdown return
ProcessorKinds ==
    [mutates : BOOLEAN, force_flush : {"Ok", "Err"}, shutdown : {"Ok", "Err"}]

\* the SimpleLogProcessor of demo_code.rs
SimpleProcessor == [mutates |-> FALSE, force_flush |-> "Ok", shutdown |-> "Ok"]

NoChainRet == [op |-> "none", val |-> "Unit", by |-> 0]

\* LogManager::new, no call made yet
ChainFields ==
    /\ processors = <<SimpleProcessor>>
    /\ cop = "idle"
    /\ cpos = 0
    /\ data = <<>>
    /\ observed = <<>>
    /\ invoked = <<>>
    /\ cret = NoChainRet
    /\ cCalls = 0

\* the four environment variables of the BatchConfigBuilder
EnvVars == {"OTEL_BLRP_MAX_QUEUE_SIZE", "OTEL_BLRP_SCHEDULE_DELAY",
            "OTEL_BLRP_MAX_EXPORT_BATCH_SIZE", "OTEL_BLRP_EXPORT_TIMEOUT"}

\* env::var(name).ok(): None for a variable that is not set, else its text,
\* a sequence of characters
Unset == [set |-> FALSE, text |-> <<>>]
Text(t) == [set |-> TRUE, text |-> t]

\* no variable is set
NoEnv == [v \in EnvVars |-> Unset]

NoBuilder == [made |-> FALSE, max_queue_size |-> 0, scheduled_delay |-> 0,
              max_export_batch_size |-> 0, max_export_timeout |-> 0]
NoConfig == [made |-> FALSE, max_queue_size |-> 0, scheduled_delay |-> 0,
             max_export_batch_size |-> 0, max_export_timeout |-> 0]

\* no BatchConfigBuilder made yet, in the environment e
BuilderFields(e) ==
    /\ env = e
    /\ builder = NoBuilder
    /\ built = NoConfig
    /\ builtBy = "none"
    /\ nwith = 0

\* the worker threads of a WorkerPool and the processors built on its runtime
PoolThreads == 1..MaxThreads
PoolProcessors == 1..MaxPoolProcessors

\* CustomThreadRuntime::new(n): n threads in worker_loop, no task sent yet
PoolFields(n) ==
    /\ num_threads = n
    /\ task_queue = <<>>
    /\ thread_task = [t \in PoolThreads |-> 0]
    /\ pworker = [p \in PoolProcessors |-> "none"]
    /\ pcall = [p \in PoolProcessors |-> "idle"]

\* the writer threads of the buffer tests; thread 0 is the reader
num_writers == 2
CbWriters == 1..num_writers
CbReader == 0
CbThreads == {CbReader} \cup CbWriters

\* the item types of the buffer tests: i32 has no destructor, ComplexData
\* owns a String and a Vec
ItemKinds == {"i32", "ComplexData"}

\* Node.data as MaybeUninit::uninit() leaves it
Uninit == [val |-> 0, live |-> FALSE]

\* an item of value v whose allocations are live
Item(v) == [val |-> v, live |-> TRUE]

\* AtomicCircularBuffer::new: a ring of CAPACITY nodes, head = tail = node 0,
\* no thread inside a call
CbFields(kind, writers) ==
    /\ item_kind = kind
    /\ cb_writers = writers
    /\ cb_head = 0
    /\ cb_tail = 0
    /\ cb_data = [i \in 0..(CAPACITY - 1) |-> Uninit]
    /\ cb_pc = [t \in CbThreads |-> "idle"]
    /\ cb_loc = [t \in CbThreads |-> [at |-> 0, data |-> Uninit, arg |-> 0]]
    /\ cb_ret = [t \in CbThreads |-> [kind |-> "None", item |-> Uninit]]
    /\ cb_pushed = <<>>
    /\ cb_popped = <<>>
    /\ next_item = 1

\* the threads calling Sum::measure; thread 0 is the collector calling delta
Measurers == {1, 2}
Collector == 0

\* a HashMap without entries
EmptyBucket == [k \in {} |-> 0]

\* Sum::new: ValueMap::new, no call made yet (a bucket that is None behaves
\* as one holding an empty map)
SumFields ==
    /\ sum_buckets = [i \in 0..(BUCKET_COUNT - 1) |-> EmptyBucket]
    /\ has_no_value_attribute_value = FALSE
    /\ no_attribute_value = 0
    /\ total_unique_entries = 0
    /\ drain_lock = [readers |-> {}, writer |-> FALSE]
    /\ sum_pc = [t \in {Collector} \cup Measurers |-> "idle"]
    /\ sum_loc = [t \in {Collector} \cup Measurers |->
                    IF t = Collector
                    THEN [data_points |-> 0, drained |-> <<>>]
                    ELSE [attrs |-> "", measurement |-> 0]]
    /\ cycles = <<>>
    /\ next_measure = 1
    /\ dirty = FALSE

\* BatchLogProcessor::new, no call made yet
BatchFields(firstRec) ==
    /\ queue = <<>>
    /\ closed = FALSE
    /\ tickPending = FALSE
    /\ turn = "msg"
    /\ logs = <<>>
    /\ wpc = "recv"
    /\ cur = NoMessage
    /\ result = "None"
    /\ exportDone = "None"
    /\ timerFired = FALSE
    /\ exportCalls = <<>>
    /\ lastExport = NoExport
    /\ shutdownCalls = 0
    /\ exporterRes = 0
    /\ errSink = {}
    /\ cpc = [c \in Callers |-> "idle"]
    /\ reply = [c \in Callers |-> "None"]
    /\ ret = [c \in Callers |-> NoRet]
    /\ atCall = [c \in Callers |-> NoCall]
    /\ nextRec = firstRec
    /\ ncalls = 0
    /\ enq = {}
    /\ sdRet = "none"
    /\ late = {}

InitFrom(firstRec) ==
    /\ runtime \in Runtimes
    /\ exporterKind \in ExporterKinds
    /\ config = BuildConfig(ReqQueueSize, ReqBatchSize)
    /\ processor = "Batch"
    /\ BatchFields(firstRec)
    /\ SimpleFields
    /\ ChainFields
    /\ BuilderFields(NoEnv)
    /\ PoolFields(1)
    /\ CbFields("i32", 1)
    /\ SumFields

Init == InitFrom(1)

\* a processor built with any BatchConfig the builder can produce
ConfigInit ==
    /\ runtime \in Runtimes
    /\ exporterKind \in ExporterKinds
    /\ \E q \in 0..ReqQueueSize, b \in 0..ReqBatchSize : config = BuildConfig(q, b)
    /\ processor = "Batch"
    /\ BatchFields(1)
    /\ SimpleFields
    /\ ChainFields
    /\ BuilderFields(NoEnv)
    /\ PoolFields(1)
    /\ CbFields("i32", 1)
    /\ SumFields

\* the initial state of the specification the progress properties are
\* checked under: the producers emit LiveRecords records
LiveInit == InitFrom(MaxRecords - LiveRecords + 1)

workerVars == <<logs, wpc, cur, exportDone, timerFired, exportCalls,
                lastExport, shutdownCalls, exporterRes, tickPending, turn, closed>>

\* ------------------------------------------------- producer-facing calls
\* emit with a blocking send: it proceeds only when the channel accepts
emit_blocking(c) ==
    /\ cpc[c] = "idle"
    /\ nextRec <= MaxRecords
    /\ try_send(queue, closed) = "Ok"
    /\ queue' = Append(queue, ExportLog(nextRec, c))
    /\ enq' = enq \cup {<<nextRec, c, PendingResources(queue)>>}
    /\ ret' = [ret EXCEPT ![c] = [op |-> "emit", id |-> 0, val |-> "Unit"]]
    /\ late' = IF sdRet = "completed" THEN late \cup {nextRec} ELSE late
    /\ nextRec' = nextRec + 1
    /\ UNCHANGED <<otherVars, runtime, exporterKind, workerVars, result, errSink, cpc,
                   reply, atCall, ncalls, sdRet>>

\* BatchLogProcessor::emit
emit(c) ==
    /\ cpc[c] = "idle"
    /\ nextRec <= MaxRecords
    /\ LET sent == try_send(queue, closed) IN
        /\ queue' = IF sent = "Ok" THEN Append(queue, ExportLog(nextRec, c))
                    ELSE queue
        /\ enq' = IF sent = "Ok"
                  THEN enq \cup {<<nextRec, c, PendingResources(queue)>>}
                  ELSE enq
        /\ errSink' = IF sent = "Ok" THEN errSink
                      ELSE errSink \cup {<<sent, "emit", nextRec>>}
    /\ ret' = [ret EXCEPT ![c] = [op |-> "emit", id |-> 0, val |-> "Unit"]]
    /\ late' = IF sdRet = "completed" THEN late \cup {nextRec} ELSE late
    /\ nextRec' = nextRec + 1
    /\ UNCHANGED <<otherVars, runtime, exporterKind, workerVars, result, cpc, reply,
                   atCall, ncalls, sdRet>>

callerConst == <<runtime, exporterKind, workerVars, result, otherVars>>

\* what the caller remembers of the channel when it makes a control call
Snapshot(recs) == [pend |-> recs, running |-> WorkerState = "Running"]

\* the strongest outcome of the shutdown calls that have returned:
\* none < rejected (the Shutdown message was refused: queue full)
\*      < completed (any other return)
SdRetAfter(val) ==
    IF val = "ChannelFull" /\ sdRet # "completed" THEN "rejected"
    ELSE IF val = "ChannelFull" THEN sdRet
    ELSE "completed"

\* BatchLogProcessor::force_flush up to block_on(res_receiver)
force_flush(c) ==
    /\ cpc[c] = "idle"
    /\ ncalls < MaxCalls
    /\ ncalls' = ncalls + 1
    /\ atCall' = [atCall EXCEPT ![c] = Snapshot(EnqueuedBy(c))]
    /\ LET sent == try_send(queue, closed) IN
        IF sent = "Ok"
        THEN /\ queue' = Append(queue, Flush(c, ncalls + 1))
             /\ cpc' = [cpc EXCEPT ![c] = "flush_wait"]
             /\ ret' = [ret EXCEPT ![c] =
                            [op |-> "pending", id |-> ncalls + 1, val |-> "Unit"]]
        ELSE /\ queue' = queue
             /\ cpc' = cpc
             /\ ret' = [ret EXCEPT ![c] =
                            [op |-> "force_flush", id |-> ncalls + 1, val |-> sent]]
    /\ UNCHANGED <<callerConst, errSink, reply, nextRec, enq, sdRet, late>>

\* BatchLogProcessor::shutdown up to block_on(res_receiver)
shutdown(c) ==
    /\ cpc[c] = "idle"
    /\ ncalls < MaxCalls
    /\ ncalls' = ncalls + 1
    /\ atCall' = [atCall EXCEPT ![c] = Snapshot(EnqueuedAll)]
    /\ LET sent == try_send(queue, closed) IN
        IF sent = "Ok"
        THEN /\ queue' = Append(queue, Shutdown(c, ncalls + 1))
             /\ cpc' = [cpc EXCEPT ![c] = "shutdown_wait"]
             /\ ret' = [ret EXCEPT ![c] =
                            [op |-> "pending", id |-> ncalls + 1, val |-> "Unit"]]
             /\ sdRet' = sdRet
        ELSE /\ queue' = queue
             /\ cpc' = cpc
             /\ ret' = [ret EXCEPT ![c] =
                            [op |-> "shutdown", id |-> ncalls + 1, val |-> sent]]
             /\ sdRet' = SdRetAfter(sent)
    /\ UNCHANGED <<callerConst, errSink, reply, nextRec, enq, late>>

\* block_on(res_receiver) returns in force_flush or shutdown: the worker
\* sent a result, or the oneshot sender was dropped (Canceled)
block_on_returns(c) ==
    /\ cpc[c] \in {"flush_wait", "shutdown_wait"}
    /\ reply[c] # "None"
    /\ ret' = [ret EXCEPT ![c] =
                  [op |-> IF cpc[c] = "flush_wait" THEN "force_flush"
                          ELSE "shutdown",
                   id |-> ret[c].id, val |-> reply[c]]]
    /\ sdRet' = IF cpc[c] = "shutdown_wait" THEN SdRetAfter(reply[c]) ELSE sdRet
    /\ cpc' = [cpc EXCEPT ![c] = "idle"]
    /\ reply' = [reply EXCEPT ![c] = "None"]
    /\ UNCHANGED <<callerConst, queue, errSink, atCall, nextRec, ncalls, enq,
                   late>>

\* BatchLogProcessor::set_resource: the result of try_send is ignored
set_resource(c) ==
    /\ cpc[c] = "idle"
    /\ ncalls < MaxCalls
    /\ ncalls' = ncalls + 1
    /\ queue' = IF try_send(queue, closed) = "Ok"
                THEN Append(queue, SetResource(ncalls + 1))
                ELSE queue
    /\ ret' = [ret EXCEPT ![c] =
                  [op |-> "set_resource", id |-> ncalls + 1, val |-> "Unit"]]
    /\ UNCHANGED <<callerConst, errSink, cpc, reply, atCall, nextRec, enq,
                   sdRet, late>>

\* ------------------------------------------------------------- exporter
\* LogExporter::export polled for the first time by future::select: a
\* result at once, or Pending
FirstPoll(kind) ==
    IF kind = "never" THEN {"Pending"} ELSE {"Ok", "ExportFailed", "Pending"}

\* the condition under which an export call is made
Trigger(m) ==
    IF m.type = "ExportLog" THEN "size"
    ELSE IF m.type = "Shutdown" THEN "shutdown"
    ELSE IF m.ch = "None" THEN "tick"
    ELSE "flush"

\* ------------------------------------------------------ the worker's loop
\* stream::select(message_receiver, ticker): the streams that can yield the
\* next item. CustomReceiver::poll_next and CustomInterval::poll_next block
\* in recv(), so on CustomThreadRuntime the stream polled first decides.
Sources ==
    IF runtime = "CustomThread"
    THEN {s \in {turn} : (s = "msg" /\ queue # <<>>) \/ (s = "tick" /\ tickPending)}
    ELSE {s \in {"msg", "tick"} :
              (s = "msg" /\ queue # <<>>) \/ (s = "tick" /\ tickPending)}

\* the code after the export where the Flush arm also gives the error of a
\* Flush that has a reply channel to global::handle_error
AfterExport_also_to_sink(m, res) ==
    IF m.type = "Shutdown"
    THEN /\ wpc' = "sd_shutdown"
         /\ cur' = m
         /\ result' = res
         /\ UNCHANGED <<reply, errSink>>
    ELSE /\ wpc' = "recv"
         /\ cur' = NoMessage
         /\ result' = "None"
         /\ reply' = IF m.type = "Flush" /\ m.ch # "None"
                     THEN [reply EXCEPT ![m.ch] = res] ELSE reply
         /\ errSink' = IF res = "Ok" THEN errSink
                       ELSE errSink \cup {<<res, Trigger(m), 0>>}

\* the code after the export where a Flush is answered with the error of an
\* earlier export, when there is one in the error sink
AfterExport_earlier_error(m, res) ==
    IF m.type = "Shutdown"
    THEN /\ wpc' = "sd_shutdown"
         /\ cur' = m
         /\ result' = res
         /\ UNCHANGED <<reply, errSink>>
    ELSE /\ wpc' = "recv"
         /\ cur' = NoMessage
         /\ result' = "None"
         /\ IF m.type = "Flush" /\ m.ch # "None"
            THEN /\ reply' = [reply EXCEPT ![m.ch] =
                                  IF \E e \in errSink : e[2] \in {"tick", "size"}
                                  THEN "ExportFailed" ELSE res]
                 /\ errSink' = errSink
            ELSE /\ reply' = reply
                 /\ errSink' = IF res = "Ok" THEN errSink
                               ELSE errSink \cup {<<res, Trigger(m), 0>>}

\* the code after `export_with_timeout(...).await` in each arm of the loop
AfterExport(m, res) ==
    IF m.type = "Shutdown"
    THEN /\ wpc' = "sd_shutdown"
         /\ cur' = m
         /\ result' = res
         /\ UNCHANGED <<reply, errSink>>
    ELSE /\ wpc' = "recv"
         /\ cur' = NoMessage
         /\ result' = "None"
         /\ IF m.type = "Flush" /\ m.ch # "None"
            THEN /\ reply' = [reply EXCEPT ![m.ch] = res]
                 /\ errSink' = errSink
            ELSE /\ reply' = reply
                 /\ errSink' = IF res = "Ok" THEN errSink
                               ELSE errSink \cup {<<res, Trigger(m), 0>>}

\* export_with_timeout taking every batch for an empty one
export_skipped(m, batch) ==
    /\ AfterExport(m, "Ok")
    /\ lastExport' = [id |-> m.id, n |-> 0, res |-> "Ok"]
    /\ UNCHANGED exportCalls

\* a test for the empty batch that never succeeds
never_empty(batch) == FALSE

\* batch.is_empty()
is_empty(batch) == batch = <<>>

\* export_with_timeout up to the first poll of future::select(export, timeout)
export_with_timeout(m, batch) ==
    IF is_empty(batch)
    THEN /\ AfterExport(m, "Ok")
         /\ lastExport' = [id |-> m.id, n |-> 0, res |-> "Ok"]
         /\ UNCHANGED exportCalls
    ELSE \E fp \in FirstPoll(exporterKind) :
            /\ exportCalls' = Append(exportCalls,
                   [batch |-> batch, trigger |-> Trigger(m)])
            /\ lastExport' = [id |-> m.id, n |-> Len(batch), res |-> fp]
            /\ IF fp = "Pending"
               THEN /\ wpc' = "exporting"
                    /\ cur' = m
                    /\ UNCHANGED <<result, reply, errSink>>
               ELSE AfterExport(m, fp)

\* a split_off(0) that leaves a copy of the content in the vector
split_off_copy(v) == [taken |-> v, left |-> v]

\* Vec::split_off(0): the whole content is taken, the vector is left empty
split_off(v) == [taken |-> v, left |-> <<>>]

\* a push that puts the new element in twice
push_twice(v, x) == Append(Append(v, x), x)

\* a push that puts the new element in front
push_front(v, x) == <<x>> \o v

\* Vec::push
push(v, x) == Append(v, x)

\* a test of the buffer length that never succeeds
BatchNeverFull(v) == FALSE

\* logs.len() == config.max_export_batch_size
BatchIsFull(v) == Len(v) = max_export_batch_size

\* a SetResource arm that does not call the exporter
exporter_set_resource_skipped(held, resource) == held

\* exporter.set_resource(&resource): the exporter holds the resource
exporter_set_resource(held, resource) == resource

\* one arm of `match message`, up to its first await that is not ready
Handle(m) ==
    IF m.type = "ExportLog"
    THEN LET pushed == push(logs, m.rec) IN
         IF BatchIsFull(pushed)
         THEN /\ logs' = split_off(pushed).left
              /\ export_with_timeout(m, split_off(pushed).taken)
              /\ UNCHANGED exporterRes
         ELSE /\ logs' = pushed
              /\ UNCHANGED <<wpc, cur, result, reply, errSink, exportCalls,
                             lastExport, exporterRes>>
    ELSE IF m.type = "SetResource"
    THEN /\ exporterRes' = exporter_set_resource(exporterRes, m.id)
         /\ UNCHANGED <<logs, wpc, cur, result, reply, errSink, exportCalls,
                        lastExport>>
    ELSE /\ logs' = split_off(logs).left
         /\ export_with_timeout(m, split_off(logs).taken)
         /\ UNCHANGED exporterRes

ghostVars == <<runtime, exporterKind, cpc, ret, atCall, nextRec, ncalls, enq,
               sdRet, late>>

\* `messages.next().await` yields a message or a tick, and the arm runs
WorkerNext(src) ==
    /\ wpc = "recv"
    /\ src \in Sources
    /\ LET m == IF src = "msg" THEN Head(queue) ELSE TickMessage IN
        /\ queue' = IF src = "msg" THEN Tail(queue) ELSE queue
        /\ tickPending' = IF src = "tick" THEN FALSE ELSE tickPending
        /\ turn' = IF runtime = "CustomThread"
                   THEN (IF src = "msg" THEN "tick" ELSE "msg")
                   ELSE turn
        /\ Handle(m)
    /\ UNCHANGED <<otherVars, ghostVars, closed, exportDone, timerFired, shutdownCalls>>

\* future::select(export, timeout) after the export's first poll returned
\* Pending. CustomDelay::poll blocks in recv() until the delay has elapsed
\* and then is Ready, so on CustomThreadRuntime select yields Right.
\* a select that ignores the timeout future
SelectNoTimeout(done, fired) ==
    IF done # "None" THEN done ELSE "Pending"

SelectResult(done, fired) ==
    IF runtime = "CustomThread"
    THEN IF fired THEN "ExportTimedOut" ELSE "Pending"
    ELSE IF done # "None" THEN done
    ELSE IF fired THEN "ExportTimedOut"
    ELSE "Pending"

\* export_with_timeout returns from its await
WorkerSelect ==
    /\ wpc = "exporting"
    /\ LET res == SelectResult(exportDone, timerFired) IN
        /\ res # "Pending"
        /\ lastExport' = [lastExport EXCEPT !.res = res]
        /\ AfterExport(cur, res)
    /\ exportDone' = "None"
    /\ timerFired' = FALSE
    /\ UNCHANGED <<otherVars, ghostVars, queue, closed, tickPending, turn, logs,
                   exportCalls, shutdownCalls, exporterRes>>

\* Shutdown arm without the call of exporter.shutdown()
WorkerSkipsExporterShutdown ==
    /\ wpc = "sd_shutdown"
    /\ wpc' = "sd_send"
    /\ UNCHANGED <<otherVars, ghostVars, queue, closed, tickPending, turn, logs, cur,
                   result, exportDone, timerFired, exportCalls, lastExport,
                   shutdownCalls, exporterRes, errSink, reply>>

\* Shutdown arm: exporter.shutdown()
WorkerExporterShutdown ==
    /\ wpc = "sd_shutdown"
    /\ shutdownCalls' = shutdownCalls + 1
    /\ wpc' = "sd_send"
    /\ UNCHANGED <<otherVars, ghostVars, queue, closed, tickPending, turn, logs, cur,
                   result, exportDone, timerFired, exportCalls, lastExport,
                   exporterRes,
                   errSink, reply>>

\* Shutdown arm: ch.send(result). The caller holds the receiver until it
\* has the reply, so the send does not fail.
WorkerShutdownReply ==
    /\ wpc = "sd_send"
    /\ reply' = [reply EXCEPT ![cur.ch] = result]
    /\ wpc' = "sd_break"
    /\ UNCHANGED <<otherVars, ghostVars, queue, closed, tickPending, turn, logs, cur,
                   result, exportDone, timerFired, exportCalls, lastExport, shutdownCalls,
                   exporterRes, errSink>>

\* the reply channels of the control messages still in q
Waiting(q) ==
    {q[i].ch : i \in {j \in DOMAIN q : q[j].type \in {"Flush", "Shutdown"}}}

\* Shutdown arm without the break: the loop goes on
WorkerKeepsRunning ==
    /\ wpc = "sd_break"
    /\ wpc' = "recv"
    /\ cur' = NoMessage
    /\ result' = "None"
    /\ UNCHANGED <<otherVars, ghostVars, queue, closed, reply, tickPending, turn, logs,
                   exportDone, timerFired, exportCalls, lastExport,
                   shutdownCalls, exporterRes, errSink>>

\* Shutdown arm leaving the loop while the queued oneshot senders stay alive
WorkerExitKeepsSenders ==
    /\ wpc = "sd_break"
    /\ wpc' = "done"
    /\ closed' = TRUE
    /\ queue' = <<>>
    /\ UNCHANGED <<otherVars, ghostVars, reply, tickPending, turn, logs, cur, result,
                   exportDone, timerFired, exportCalls, lastExport,
                   shutdownCalls, exporterRes, errSink>>

\* Shutdown arm: break. The worker's future ends; message_receiver is
\* dropped with the messages it holds, which drops their oneshot senders.
WorkerExit ==
    /\ wpc = "sd_break"
    /\ wpc' = "done"
    /\ closed' = TRUE
    /\ queue' = <<>>
    /\ reply' = [c \in Callers |->
                    IF c \in Waiting(queue) THEN "Canceled" ELSE reply[c]]
    /\ UNCHANGED <<otherVars, ghostVars, tickPending, turn, logs, cur, result, exportDone,
                   timerFired, exportCalls, lastExport, shutdownCalls, exporterRes,
                   errSink>>

\* ---------------------------------------------------------- environment
\* the exporter finishes the export in flight
ExporterCompletes ==
    /\ wpc = "exporting"
    /\ exporterKind = "completes"
    /\ exportDone = "None"
    /\ ~timerFired
    /\ \E r \in {"Ok", "ExportFailed"} : exportDone' = r
    /\ UNCHANGED <<otherVars, ghostVars, queue, closed, tickPending, turn, logs, wpc, cur,
                   result, timerFired, exportCalls, lastExport, shutdownCalls, exporterRes,
                   errSink, reply>>

\* max_export_timeout elapses. On the Tokio runtimes select has already
\* resolved when the export completed first.
TimerFires ==
    /\ wpc = "exporting"
    /\ ~timerFired
    /\ runtime = "Tokio" => exportDone = "None"
    /\ timerFired' = TRUE
    /\ UNCHANGED <<otherVars, ghostVars, queue, closed, tickPending, turn, logs, wpc, cur,
                   result, exportDone, exportCalls, lastExport, shutdownCalls, exporterRes,
                   errSink, reply>>

\* scheduled_delay elapses: the interval stream has an item
Tick ==
    /\ wpc # "done"
    /\ ~tickPending
    /\ tickPending' = TRUE
    /\ UNCHANGED <<otherVars, ghostVars, queue, closed, turn, logs, wpc, cur, result,
                   exportDone, timerFired, exportCalls, lastExport, shutdownCalls,
                   exporterRes, errSink, reply>>

Worker ==
    \/ \E src \in {"msg", "tick"} : WorkerNext(src)
    \/ WorkerSelect
    \/ WorkerExporterShutdown
    \/ WorkerShutdownReply
    \/ WorkerExit

Next ==
    \/ \E c \in Callers : emit(c)
    \/ \E c \in Callers : force_flush(c)
    \/ \E c \in Callers : shutdown(c)
    \/ \E c \in Callers : set_resource(c)
    \/ \E c \in Callers : block_on_returns(c)
    \/ \E src \in {"msg", "tick"} : WorkerNext(src)
    \/ WorkerSelect
    \/ WorkerExporterShutdown
    \/ WorkerShutdownReply
    \/ WorkerExit
    \/ ExporterCompletes
    \/ TimerFires
    \/ Tick

Spec == Init /\ [][Next]_vars

ConfigSpec == ConfigInit /\ [][Next]_vars

\* the worker has a thread of its own, stream::select does not starve
\* the message stream (round robin), and timers elapse
Fairness ==
    /\ WF_vars(Worker)
    /\ SF_vars(WorkerNext("msg"))
    /\ WF_vars(TimerFires)
    /\ WF_vars(Tick)
    /\ \A c \in Callers : WF_vars(block_on_returns(c))

LiveSpec == LiveInit /\ [][Next]_vars /\ Fairness

\* the results export_with_timeout can give, which the worker sends as replies
WorkerResults == {"Ok", "ExportFailed", "ExportTimedOut"}

\* ------------------------------------------------------ SimpleLogProcessor
\* what no call on the SimpleLogProcessor changes
simpleConst == <<runtime, exporterKind, batchVars, config, processor,
                 chainVars, builderVars, poolVars, cbVars, sumVars>>

\* a lock() that does not wait for the holder to release the Mutex
Mutex_lock_unguarded(holder) == TRUE

\* Mutex::lock returns when no thread holds the Mutex
Mutex_lock(holder) == holder = "None"

\* SimpleLogProcessor::emit up to self.exporter.lock(): a no-op when
\* is_shutdown is set
S_emit(t) ==
    /\ processor = "Simple"
    /\ spc[t] = "idle"
    /\ sCalls < MaxSimpleCalls
    /\ sCalls' = sCalls + 1
    /\ sNextRec' = sNextRec + 1
    /\ IF is_shutdown
       THEN /\ sRet' = [sRet EXCEPT ![t] =
                            [op |-> "emit", rec |-> sNextRec, val |-> "Unit"]]
            /\ UNCHANGED <<spc, sCur>>
       ELSE /\ spc' = [spc EXCEPT ![t] = "emit_lock"]
            /\ sCur' = [sCur EXCEPT ![t] = sNextRec]
            /\ sRet' = [sRet EXCEPT ![t] =
                            [op |-> "pending", rec |-> sNextRec, val |-> "Unit"]]
    /\ UNCHANGED <<simpleConst, is_shutdown, exporterLock, sActive, sExports,
                   sShutdownCalls, sExporterRes, sErr>>

\* a batch that holds no record
LogBatch_new_empty(rec) == <<>>

\* LogBatch::new(&[(record, instrumentation)]): the batch of the one record
LogBatch_new(rec) == <<rec>>

\* emit: the lock is taken and block_on(exporter.export(..)) starts
S_emit_export(t) ==
    /\ spc[t] = "emit_lock"
    /\ Mutex_lock(exporterLock)
    /\ exporterLock' = t
    /\ sActive' = sActive \cup {<<t, "export">>}
    /\ sExports' = Append(sExports,
                       [batch |-> LogBatch_new(sCur[t]), by |-> t,
                        sd |-> sShutdownCalls, res |-> "pending"])
    /\ spc' = [spc EXCEPT ![t] = "emit_export"]
    /\ UNCHANGED <<simpleConst, is_shutdown, sCur, sShutdownCalls,
                   sExporterRes, sErr, sRet, sNextRec, sCalls>>

\* emit: the export completes, the guard is dropped, an error goes to
\* global::handle_error, emit returns
S_emit_return(t) ==
    /\ spc[t] = "emit_export"
    /\ exporterKind = "completes"
    /\ \E res \in {"Ok", "ExportFailed"} :
          /\ sExports' = [sExports EXCEPT ![Len(sExports)].res = res]
          /\ sErr' = IF res = "Ok" THEN sErr
                     ELSE sErr \cup {<<res, "emit", sCur[t]>>}
    /\ sActive' = sActive \ {<<t, "export">>}
    /\ exporterLock' = "None"
    /\ spc' = [spc EXCEPT ![t] = "idle"]
    /\ sRet' = [sRet EXCEPT ![t] =
                    [op |-> "emit", rec |-> sCur[t], val |-> "Unit"]]
    /\ UNCHANGED <<simpleConst, is_shutdown, sCur, sShutdownCalls,
                   sExporterRes, sNextRec, sCalls>>

\* SimpleLogProcessor::force_flush
S_force_flush(t) ==
    /\ processor = "Simple"
    /\ spc[t] = "idle"
    /\ sCalls < MaxSimpleCalls
    /\ sCalls' = sCalls + 1
    /\ sRet' = [sRet EXCEPT ![t] =
                    [op |-> "force_flush", rec |-> 0, val |-> "Ok"]]
    /\ UNCHANGED <<simpleConst, is_shutdown, exporterLock, spc, sCur, sActive,
                   sExports, sShutdownCalls, sExporterRes, sErr, sNextRec>>

\* SimpleLogProcessor::shutdown up to self.exporter.lock(): is_shutdown is set
S_shutdown(t) ==
    /\ processor = "Simple"
    /\ spc[t] = "idle"
    /\ sCalls < MaxSimpleCalls
    /\ sCalls' = sCalls + 1
    /\ is_shutdown' = TRUE
    /\ spc' = [spc EXCEPT ![t] = "sd_lock"]
    /\ sRet' = [sRet EXCEPT ![t] =
                    [op |-> "pending", rec |-> 0, val |-> "Unit"]]
    /\ UNCHANGED <<simpleConst, exporterLock, sCur, sActive, sExports,
                   sShutdownCalls, sExporterRes, sErr, sNextRec>>

\* shutdown: the lock is taken and exporter.shutdown() starts
S_shutdown_exporter(t) ==
    /\ spc[t] = "sd_lock"
    /\ Mutex_lock(exporterLock)
    /\ exporterLock' = t
    /\ sActive' = sActive \cup {<<t, "shutdown">>}
    /\ sShutdownCalls' = sShutdownCalls + 1
    /\ spc' = [spc EXCEPT ![t] = "sd_call"]
    /\ UNCHANGED <<simpleConst, is_shutdown, sCur, sExports, sExporterRes,
                   sErr, sRet, sNextRec, sCalls>>

\* shutdown: exporter.shutdown() is over, the guard is dropped, Ok(())
S_shutdown_return(t) ==
    /\ spc[t] = "sd_call"
    /\ sActive' = sActive \ {<<t, "shutdown">>}
    /\ exporterLock' = "None"
    /\ spc' = [spc EXCEPT ![t] = "idle"]
    /\ sRet' = [sRet EXCEPT ![t] = [op |-> "shutdown", rec |-> 0, val |-> "Ok"]]
    /\ UNCHANGED <<simpleConst, is_shutdown, sCur, sExports, sShutdownCalls,
                   sExporterRes, sErr, sNextRec, sCalls>>

\* SimpleLogProcessor::set_resource: the lock is taken and
\* exporter.set_resource(resource) starts
S_set_resource(t) ==
    /\ processor = "Simple"
    /\ spc[t] = "idle"
    /\ sCalls < MaxSimpleCalls
    /\ Mutex_lock(exporterLock)
    /\ sCalls' = sCalls + 1
    /\ exporterLock' = t
    /\ sActive' = sActive \cup {<<t, "set_resource">>}
    /\ sExporterRes' = sCalls + 1
    /\ spc' = [spc EXCEPT ![t] = "sr_call"]
    /\ sRet' = [sRet EXCEPT ![t] =
                    [op |-> "pending", rec |-> 0, val |-> "Unit"]]
    /\ UNCHANGED <<simpleConst, is_shutdown, sCur, sExports, sShutdownCalls,
                   sErr, sNextRec>>

\* set_resource: exporter.set_resource is over, the guard is dropped
S_set_resource_return(t) ==
    /\ spc[t] = "sr_call"
    /\ sActive' = sActive \ {<<t, "set_resource">>}
    /\ exporterLock' = "None"
    /\ spc' = [spc EXCEPT ![t] = "idle"]
    /\ sRet' = [sRet EXCEPT ![t] =
                    [op |-> "set_resource", rec |-> 0, val |-> "Unit"]]
    /\ UNCHANGED <<simpleConst, is_shutdown, sCur, sExports, sShutdownCalls,
                   sExporterRes, sErr, sNextRec, sCalls>>

SimpleNext ==
    \/ \E t \in Threads : S_emit(t)
    \/ \E t \in Threads : S_emit_export(t)
    \/ \E t \in Threads : S_emit_return(t)
    \/ \E t \in Threads : S_force_flush(t)
    \/ \E t \in Threads : S_shutdown(t)
    \/ \E t \in Threads : S_shutdown_exporter(t)
    \/ \E t \in Threads : S_shutdown_return(t)
    \/ \E t \in Threads : S_set_resource(t)
    \/ \E t \in Threads : S_set_resource_return(t)

\* a SimpleLogProcessor is in use; no BatchLogProcessor takes any step
SimpleInit ==
    /\ runtime = "CustomThread"
    /\ exporterKind \in ExporterKinds
    /\ config = BuildConfig(ReqQueueSize, ReqBatchSize)
    /\ processor = "Simple"
    /\ BatchFields(1)
    /\ SimpleFields
    /\ ChainFields
    /\ BuilderFields(NoEnv)
    /\ PoolFields(1)
    /\ CbFields("i32", 1)
    /\ SumFields

SimpleSpec == SimpleInit /\ [][SimpleNext]_vars

\* one exporter behind either processor: a BatchLogProcessor with its
\* worker, or a SimpleLogProcessor with its calling threads
ExporterNext ==
    \/ \E c \in Callers : processor = "Batch" /\ emit(c)
    \/ \E c \in Callers : processor = "Batch" /\ force_flush(c)
    \/ \E c \in Callers : processor = "Batch" /\ shutdown(c)
    \/ \E c \in Callers : processor = "Batch" /\ set_resource(c)
    \/ \E c \in Callers : processor = "Batch" /\ block_on_returns(c)
    \/ \E src \in {"msg", "tick"} : processor = "Batch" /\ WorkerNext(src)
    \/ processor = "Batch" /\ WorkerSelect
    \/ processor = "Batch" /\ WorkerExporterShutdown
    \/ processor = "Batch" /\ WorkerShutdownReply
    \/ processor = "Batch" /\ WorkerExit
    \/ processor = "Batch" /\ ExporterCompletes
    \/ processor = "Batch" /\ TimerFires
    \/ processor = "Batch" /\ Tick
    \/ SimpleNext
ExporterSpec == (Init \/ SimpleInit) /\ [][ExporterNext]_vars

\* --------------------------------------------------------------- LogManager
\* what no call on the LogManager changes
chainConst == <<runtime, exporterKind, batchVars, config, processor, simpleVars,
                builderVars, poolVars, cbVars, sumVars>>

\* LogManager::add_processor
add_processor(p) ==
    /\ processor = "Chain"
    /\ cop = "idle"
    /\ Len(processors) < MaxProcessors
    /\ processors' = Append(processors, p)
    /\ UNCHANGED <<chainConst, cop, cpos, data, observed, invoked, cret, cCalls>>

\* an emit that works on a copy of the record
emit_on_copy(d, i) == d

\* emit of the processor at place i, given the record by `&mut`: a processor
\* that changes the record adds its mark
processor_emit(d, i) == IF processors[i].mutates THEN Append(d, i) ELSE d

\* LogManager::emit_all is called with a new record
emit_all(r) ==
    /\ processor = "Chain"
    /\ cop = "idle"
    /\ cCalls < MaxChainCalls
    /\ cCalls' = cCalls + 1
    /\ cop' = "emit_all"
    /\ cpos' = 1
    /\ data' = r
    /\ observed' = <<>>
    /\ cret' = [op |-> "pending", val |-> "Unit", by |-> 0]
    /\ UNCHANGED <<chainConst, processors, invoked>>

\* emit_all: one turn of the loop, processor.emit(data)
emit_all_next ==
    /\ cop = "emit_all"
    /\ cpos <= Len(processors)
    /\ observed' = Append(observed, [proc |-> cpos, saw |-> data])
    /\ data' = processor_emit(data, cpos)
    /\ cpos' = cpos + 1
    /\ UNCHANGED <<chainConst, processors, cop, invoked, cret, cCalls>>

\* emit_all: the loop is over
emit_all_return ==
    /\ cop = "emit_all"
    /\ cpos > Len(processors)
    /\ cop' = "idle"
    /\ cpos' = 0
    /\ cret' = [op |-> "emit_all", val |-> "Unit", by |-> 0]
    /\ UNCHANGED <<chainConst, processors, data, observed, invoked, cCalls>>

\* LogManager::force_flush_all or LogManager::shutdown_all is called
call_all(op) ==
    /\ processor = "Chain"
    /\ cop = "idle"
    /\ cCalls < MaxChainCalls
    /\ cCalls' = cCalls + 1
    /\ cop' = op
    /\ cpos' = 1
    /\ invoked' = <<>>
    /\ cret' = [op |-> "pending", val |-> "Unit", by |-> 0]
    /\ UNCHANGED <<chainConst, processors, data, observed>>

\* one turn of the loop in which the result of the processor is dropped
call_all_next_ignoring_result ==
    /\ cop \in {"force_flush_all", "shutdown_all"}
    /\ cpos <= Len(processors)
    /\ invoked' = Append(invoked, cpos)
    /\ cpos' = cpos + 1
    /\ UNCHANGED <<chainConst, processors, data, observed, cCalls, cop, cret>>

\* force_flush_all / shutdown_all: one turn of the loop,
\* processor.force_flush()? or processor.shutdown()?
call_all_next ==
    /\ cop \in {"force_flush_all", "shutdown_all"}
    /\ cpos <= Len(processors)
    /\ invoked' = Append(invoked, cpos)
    /\ LET res == IF cop = "force_flush_all" THEN processors[cpos].force_flush
                  ELSE processors[cpos].shutdown IN
        IF res = "Ok"
        THEN /\ cpos' = cpos + 1
             /\ UNCHANGED <<cop, cret>>
        ELSE /\ cop' = "idle"
             /\ cpos' = 0
             /\ cret' = [op |-> cop, val |-> "Err", by |-> cpos]
    /\ UNCHANGED <<chainConst, processors, data, observed, cCalls>>

\* force_flush_all / shutdown_all: the loop is over, Ok(())
call_all_return ==
    /\ cop \in {"force_flush_all", "shutdown_all"}
    /\ cpos > Len(processors)
    /\ cret' = [op |-> cop, val |-> "Ok", by |-> 0]
    /\ cop' = "idle"
    /\ cpos' = 0
    /\ UNCHANGED <<chainConst, processors, data, observed, invoked, cCalls>>

ChainNext ==
    \/ \E p \in ProcessorKinds : add_processor(p)
    \/ \E r \in {<<>>, <<0>>} : emit_all(r)
    \/ emit_all_next
    \/ emit_all_return
    \/ \E op \in {"force_flush_all", "shutdown_all"} : call_all(op)
    \/ call_all_next
    \/ call_all_return

\* what the processor at place i returns for the LogManager call op
ResultOf(op, i) ==
    IF op = "force_flush_all" THEN processors[i].force_flush
    ELSE processors[i].shutdown

\* the places of the processors that fail the LogManager call op
Failing(op) == {i \in 1..Len(processors) : ResultOf(op, i) = "Err"}

\* a LogManager is in use; no processor of its chain is looked into
ChainInit ==
    /\ runtime = "CustomThread"
    /\ exporterKind = "completes"
    /\ config = BuildConfig(ReqQueueSize, ReqBatchSize)
    /\ processor = "Chain"
    /\ BatchFields(1)
    /\ SimpleFields
    /\ ChainFields
    /\ BuilderFields(NoEnv)
    /\ PoolFields(1)
    /\ CbFields("i32", 1)
    /\ SumFields

ChainSpec == ChainInit /\ [][ChainNext]_vars

\* the marks of the processors before place n that change the record
RECURSIVE MarksBefore(_)
MarksBefore(n) ==
    IF n <= 1 THEN <<>>
    ELSE IF processors[n - 1].mutates
         THEN Append(MarksBefore(n - 1), n - 1)
         ELSE MarksBefore(n - 1)

\* ------------------------------------------------------ BatchConfigBuilder
\* what no call on a BatchConfigBuilder changes
builderConst == <<runtime, exporterKind, batchVars, config, processor,
                  simpleVars, chainVars, poolVars, cbVars, sumVars, env>>

OTEL_BLRP_SCHEDULE_DELAY_DEFAULT == 1000
OTEL_BLRP_EXPORT_TIMEOUT_DEFAULT == 30000
OTEL_BLRP_MAX_QUEUE_SIZE_DEFAULT == 2048
OTEL_BLRP_MAX_EXPORT_BATCH_SIZE_DEFAULT == 512

\* a parse result that is an Err (.ok() makes it None)
None == -1

DigitChars == <<"0", "1", "2", "3", "4", "5", "6", "7", "8", "9">>

\* char::to_digit(10)
to_digit(ch) ==
    IF \E i \in DOMAIN DigitChars : DigitChars[i] = ch
    THEN (CHOOSE i \in DOMAIN DigitChars : DigitChars[i] = ch) - 1
    ELSE None

\* the digit loop of from_str_radix: an Err at the first character that is
\* no digit (the texts of the environment are short: no value overflows)
RECURSIVE parse_digits(_, _)
parse_digits(text, acc) ==
    IF text = <<>> THEN acc
    ELSE IF to_digit(Head(text)) = None THEN None
    ELSE parse_digits(Tail(text), acc * 10 + to_digit(Head(text)))

\* a from_str that trims white space before it parses
from_str_trimmed(text) ==
    LET kept == SelectSeq(text, LAMBDA ch : ch # " ")
    IN  IF kept = <<>> THEN None ELSE parse_digits(kept, 0)

\* usize::from_str / u64::from_str: Err for the empty text and for a lone
\* sign; one leading "+" is accepted; "-" is no digit of an unsigned type
from_str(text) ==
    IF text = <<>> THEN None
    ELSE LET digits == IF Head(text) = "+" THEN Tail(text) ELSE text
         IN  IF digits = <<>> THEN None ELSE parse_digits(digits, 0)

\* env::var(name).ok().and_then(|s| from_str(&s).ok())
env_parsed(name) ==
    IF env[name].set THEN from_str(env[name].text) ELSE None

\* the defaults with max_queue_size and max_export_batch_size exchanged
BuilderDefaults_exchanged ==
    [made |-> TRUE,
     max_queue_size |-> OTEL_BLRP_MAX_EXPORT_BATCH_SIZE_DEFAULT,
     scheduled_delay |-> OTEL_BLRP_SCHEDULE_DELAY_DEFAULT,
     max_export_batch_size |-> OTEL_BLRP_MAX_QUEUE_SIZE_DEFAULT,
     max_export_timeout |-> OTEL_BLRP_EXPORT_TIMEOUT_DEFAULT]

\* the struct literal of BatchConfigBuilder::default
BuilderDefaults ==
    [made |-> TRUE,
     max_queue_size |-> OTEL_BLRP_MAX_QUEUE_SIZE_DEFAULT,
     scheduled_delay |-> OTEL_BLRP_SCHEDULE_DELAY_DEFAULT,
     max_export_batch_size |-> OTEL_BLRP_MAX_EXPORT_BATCH_SIZE_DEFAULT,
     max_export_timeout |-> OTEL_BLRP_EXPORT_TIMEOUT_DEFAULT]

\* one `if let Some(v) = .. { self.field = v }` of init_from_env_vars
FromEnvOr(name, held) ==
    IF env_parsed(name) = None THEN held ELSE env_parsed(name)

\* BatchConfigBuilder::init_from_env_vars
init_from_env_vars(b) ==
    [made |-> b.made,
     max_queue_size |-> FromEnvOr("OTEL_BLRP_MAX_QUEUE_SIZE", b.max_queue_size),
     scheduled_delay |-> FromEnvOr("OTEL_BLRP_SCHEDULE_DELAY", b.scheduled_delay),
     max_export_batch_size |->
         FromEnvOr("OTEL_BLRP_MAX_EXPORT_BATCH_SIZE", b.max_export_batch_size),
     max_export_timeout |->
         FromEnvOr("OTEL_BLRP_EXPORT_TIMEOUT", b.max_export_timeout)]

\* BatchConfigBuilder::build on the builder b
build_of(b) ==
    [made |-> TRUE,
     max_queue_size |-> b.max_queue_size,
     scheduled_delay |-> b.scheduled_delay,
     max_export_batch_size |->
         BuildMaxExportBatchSize(b.max_export_batch_size, b.max_queue_size),
     max_export_timeout |-> b.max_export_timeout]

\* BatchConfigBuilder::default()
BatchConfigBuilder_default ==
    /\ processor = "Builder"
    /\ ~builder.made
    /\ builder' = init_from_env_vars(BuilderDefaults)
    /\ UNCHANGED <<builderConst, built, builtBy, nwith>>

\* the values handed to the with_* calls
WithValues == {0, 9}

\* one of the four with_* calls
with(field, v) ==
    /\ builder.made
    /\ ~built.made
    /\ nwith < MaxWithCalls
    /\ nwith' = nwith + 1
    /\ builder' = [builder EXCEPT ![field] = v]
    /\ UNCHANGED <<builderConst, built, builtBy>>

with_max_queue_size(v) == with("max_queue_size", v)
with_scheduled_delay(v) == with("scheduled_delay", v)
with_max_export_timeout(v) == with("max_export_timeout", v)
with_max_export_batch_size(v) == with("max_export_batch_size", v)

\* BatchConfigBuilder::build (the builder is kept as it was when consumed)
build ==
    /\ builder.made
    /\ ~built.made
    /\ built' = build_of(builder)
    /\ builtBy' = "build"
    /\ UNCHANGED <<builderConst, builder, nwith>>

\* BatchConfig::default(): BatchConfigBuilder::default().build()
BatchConfig_default ==
    /\ processor = "Builder"
    /\ ~builder.made
    /\ builder' = init_from_env_vars(BuilderDefaults)
    /\ built' = build_of(builder')
    /\ builtBy' = "BatchConfig::default"
    /\ UNCHANGED <<builderConst, nwith>>

BuilderNext ==
    \/ BatchConfigBuilder_default
    \/ \E v \in WithValues : with_max_queue_size(v)
    \/ \E v \in WithValues : with_scheduled_delay(v)
    \/ \E v \in WithValues : with_max_export_timeout(v)
    \/ \E v \in WithValues : with_max_export_batch_size(v)
    \/ build
    \/ BatchConfig_default

\* the texts an environment variable is given
EnvTexts == {<<>>, <<"7">>, <<"+", "3">>, <<"1", "2">>, <<"-", "1">>,
             <<"4", " ">>}

\* a BatchConfigBuilder is about to be made, in any environment; no
\* processor takes a step
BuilderInit ==
    /\ runtime = "CustomThread"
    /\ exporterKind = "completes"
    /\ config = BuildConfig(ReqQueueSize, ReqBatchSize)
    /\ processor = "Builder"
    /\ BatchFields(1)
    /\ SimpleFields
    /\ ChainFields
    /\ \E e \in [EnvVars -> {Unset} \cup {Text(t) : t \in EnvTexts}] :
          BuilderFields(e)
    /\ PoolFields(1)
    /\ CbFields("i32", 1)
    /\ SumFields

BuilderSpec == BuilderInit /\ [][BuilderNext]_vars

\* ------------------------------------------- CustomThreadRuntime WorkerPool
\* what no step of the WorkerPool and of the processors built on it changes
poolConst == <<runtime, exporterKind, batchVars, config, processor,
               simpleVars, chainVars, builderVars, cbVars, sumVars,
               num_threads>>

\* BatchLogProcessor::new on the runtime: runtime.spawn(worker) is
\* WorkerPool::enqueue_task, a send on the unbounded task channel
pool_new_processor(p) ==
    /\ processor = "Pool"
    /\ pworker[p] = "none"
    /\ \A q \in PoolProcessors : q < p => pworker[q] # "none"
    /\ task_queue' = Append(task_queue, p)
    /\ pworker' = [pworker EXCEPT ![p] = "queued"]
    /\ UNCHANGED <<poolConst, thread_task, pcall>>

\* WorkerPool::worker_loop: a thread that is not inside a task receives the
\* next one and enters futures_executor::block_on(task), which returns when
\* the task has completed
worker_loop(t) ==
    /\ t <= num_threads
    /\ thread_task[t] = 0
    /\ task_queue # <<>>
    /\ task_queue' = Tail(task_queue)
    /\ thread_task' = [thread_task EXCEPT ![t] = Head(task_queue)]
    /\ pworker' = [pworker EXCEPT ![Head(task_queue)] = "running"]
    /\ UNCHANGED <<poolConst, pcall>>

\* force_flush or shutdown on processor p: the message is accepted by the
\* unbounded channel (or refused when the worker is gone) and the caller
\* waits in block_on(res_receiver)
pool_call(p, op) ==
    /\ pworker[p] # "none"
    /\ pcall[p] = "idle"
    /\ pcall' = [pcall EXCEPT ![p] = IF pworker[p] = "done" THEN "idle" ELSE op]
    /\ UNCHANGED <<poolConst, task_queue, thread_task, pworker>>

\* the running worker of p handles the message and replies; after a
\* Shutdown its task completes and its thread is back in worker_loop
pool_worker_replies(p) ==
    /\ pworker[p] = "running"
    /\ pcall[p] \in {"force_flush", "shutdown"}
    /\ pcall' = [pcall EXCEPT ![p] = "idle"]
    /\ IF pcall[p] = "shutdown"
       THEN /\ pworker' = [pworker EXCEPT ![p] = "done"]
            /\ thread_task' = [t \in PoolThreads |->
                                  IF thread_task[t] = p THEN 0 ELSE thread_task[t]]
       ELSE UNCHANGED <<pworker, thread_task>>
    /\ UNCHANGED <<poolConst, task_queue>>

PoolNext ==
    \/ \E p \in PoolProcessors : pool_new_processor(p)
    \/ \E t \in PoolThreads : worker_loop(t)
    \/ \E p \in PoolProcessors : pool_call(p, "force_flush")
    \/ \E p \in PoolProcessors : pool_call(p, "shutdown")
    \/ \E p \in PoolProcessors : pool_worker_replies(p)

\* the threads of the pool and the worker tasks they run make progress
PoolFairness ==
    /\ \A t \in PoolThreads : WF_vars(worker_loop(t))
    /\ \A p \in PoolProcessors : WF_vars(pool_worker_replies(p))

\* a CustomThreadRuntime with 1..MaxThreads worker threads
PoolInit ==
    /\ runtime = "CustomThread"
    /\ exporterKind = "completes"
    /\ config = BuildConfig(ReqQueueSize, ReqBatchSize)
    /\ processor = "Pool"
    /\ BatchFields(1)
    /\ SimpleFields
    /\ ChainFields
    /\ BuilderFields(NoEnv)
    /\ \E n \in PoolThreads : PoolFields(n)
    /\ CbFields("i32", 1)
    /\ SumFields

PoolSpec == PoolInit /\ [][PoolNext]_vars /\ PoolFairness

\* ----------------------------------------------------- AtomicCircularBuffer
\* what no step of push and pop changes
cbConst == <<runtime, exporterKind, batchVars, config, processor,
             simpleVars, chainVars, builderVars, poolVars, sumVars,
             item_kind, cb_writers>>

\* Node.next as new() links the nodes: the last node points to the first
next_node(i) == IF i = CAPACITY - 1 THEN 0 ELSE i + 1

\* compare_exchange_weak(current, new): fails when the value differs from
\* current, and is allowed to fail when it does not
compare_exchange_weak(value, current) ==
    IF value = current THEN {TRUE, FALSE} ELSE {FALSE}

\* dropping a T read from a node by a bitwise copy: the allocations a
\* ComplexData owns are freed, and the node still holds the copied bytes
drop_read(node) ==
    IF item_kind = "ComplexData" THEN [node EXCEPT !.live = FALSE] ELSE node

\* push, line 65: the writer enters push (or its loop again) and loads head
push_load_head(w) ==
    /\ processor = "Buffer"
    /\ w <= cb_writers
    /\ \/ /\ cb_pc[w] = "idle"
          /\ next_item <= MaxPushes
          /\ next_item' = next_item + 1
          /\ cb_loc' = [cb_loc EXCEPT ![w] = [at |-> cb_head,
                                              data |-> Item(next_item),
                                              arg |-> next_item]]
       \/ /\ cb_pc[w] = "retry"
          /\ cb_loc' = [cb_loc EXCEPT ![w].at = cb_head]
          /\ UNCHANGED next_item
    /\ cb_pc' = [cb_pc EXCEPT ![w] = "check"]
    /\ UNCHANGED <<cbConst, cb_head, cb_tail, cb_data, cb_ret, cb_pushed,
                   cb_popped>>

\* push, lines 66-71: the buffer is full when the node after head is tail
push_check_full(w) ==
    /\ cb_pc[w] = "check"
    /\ IF next_node(cb_loc[w].at) = cb_tail
       THEN /\ cb_ret' = [cb_ret EXCEPT ![w] = [kind |-> "BufferFull",
                                                item |-> cb_loc[w].data]]
            /\ cb_pc' = [cb_pc EXCEPT ![w] = "idle"]
       ELSE /\ cb_pc' = [cb_pc EXCEPT ![w] = "write"]
            /\ UNCHANGED cb_ret
    /\ UNCHANGED <<cbConst, cb_head, cb_tail, cb_data, cb_loc, cb_pushed,
                   cb_popped, next_item>>

\* push, line 79: a clone of data is written into the node loaded as head
push_write(w) ==
    /\ cb_pc[w] = "write"
    /\ cb_data' = [cb_data EXCEPT ![cb_loc[w].at] = Item(cb_loc[w].data.val)]
    /\ cb_pc' = [cb_pc EXCEPT ![w] = "cas"]
    /\ UNCHANGED <<cbConst, cb_head, cb_tail, cb_loc, cb_ret, cb_pushed,
                   cb_popped, next_item>>

\* push, lines 80-82: head moves to the next node if it still is the node
\* loaded, and push returns Ok
push_cas(w) ==
    /\ cb_pc[w] = "cas"
    /\ \E ok \in compare_exchange_weak(cb_head, cb_loc[w].at) :
          IF ok
          THEN /\ cb_head' = next_node(cb_loc[w].at)
               /\ cb_ret' = [cb_ret EXCEPT ![w] = [kind |-> "Ok", item |-> Uninit]]
               /\ cb_pushed' = Append(cb_pushed, cb_loc[w].arg)
               /\ cb_pc' = [cb_pc EXCEPT ![w] = "idle"]
          ELSE /\ cb_pc' = [cb_pc EXCEPT ![w] = "undo"]
               /\ UNCHANGED <<cb_head, cb_ret, cb_pushed>>
    /\ UNCHANGED <<cbConst, cb_tail, cb_data, cb_loc, cb_popped, next_item>>

\* push, line 84: after a failed exchange data is read back from the node,
\* whatever the node holds by then
push_undo(w) ==
    /\ cb_pc[w] = "undo"
    /\ cb_loc' = [cb_loc EXCEPT ![w].data = cb_data[cb_loc[w].at]]
    /\ cb_pc' = [cb_pc EXCEPT ![w] = "retry"]
    /\ UNCHANGED <<cbConst, cb_head, cb_tail, cb_data, cb_ret, cb_pushed,
                   cb_popped, next_item>>

\* pop, line 93: the reader enters pop (or its loop again) and loads tail
pop_load_tail ==
    /\ processor = "Buffer"
    /\ cb_pc[CbReader] \in {"idle", "retry"}
    /\ cb_loc' = [cb_loc EXCEPT ![CbReader] = [at |-> cb_tail, data |-> Uninit,
                                               arg |-> 0]]
    /\ cb_pc' = [cb_pc EXCEPT ![CbReader] = "check"]
    /\ UNCHANGED <<cbConst, cb_head, cb_tail, cb_data, cb_ret, cb_pushed,
                   cb_popped, next_item>>

\* pop, lines 94-98: the buffer is empty when tail is head
pop_check_empty ==
    /\ cb_pc[CbReader] = "check"
    /\ IF cb_loc[CbReader].at = cb_head
       THEN /\ cb_ret' = [cb_ret EXCEPT ![CbReader] = [kind |-> "BufferEmpty",
                                                       item |-> Uninit]]
            /\ cb_pc' = [cb_pc EXCEPT ![CbReader] = "idle"]
       ELSE /\ cb_pc' = [cb_pc EXCEPT ![CbReader] = "read"]
            /\ UNCHANGED cb_ret
    /\ UNCHANGED <<cbConst, cb_head, cb_tail, cb_data, cb_loc, cb_pushed,
                   cb_popped, next_item>>

\* pop, line 105: assume_init_read copies the node's data
pop_read ==
    /\ cb_pc[CbReader] = "read"
    /\ cb_loc' = [cb_loc EXCEPT ![CbReader].data = cb_data[cb_loc[CbReader].at]]
    /\ cb_pc' = [cb_pc EXCEPT ![CbReader] = "cas"]
    /\ UNCHANGED <<cbConst, cb_head, cb_tail, cb_data, cb_ret, cb_pushed,
                   cb_popped, next_item>>

\* pop, lines 106-111: tail moves to the next node if it still is the node
\* loaded, and pop returns the copy; otherwise the copy goes out of scope,
\* is dropped, and the loop starts again
pop_cas ==
    /\ cb_pc[CbReader] = "cas"
    /\ \E ok \in compare_exchange_weak(cb_tail, cb_loc[CbReader].at) :
          IF ok
          THEN /\ cb_tail' = next_node(cb_loc[CbReader].at)
               /\ cb_ret' = [cb_ret EXCEPT ![CbReader] =
                                [kind |-> "Ok", item |-> cb_loc[CbReader].data]]
               /\ cb_popped' = Append(cb_popped, cb_loc[CbReader].data)
               /\ cb_pc' = [cb_pc EXCEPT ![CbReader] = "idle"]
               /\ UNCHANGED cb_data
          ELSE /\ cb_data' = [cb_data EXCEPT ![cb_loc[CbReader].at] =
                                 IF @ = cb_loc[CbReader].data
                                 THEN drop_read(@) ELSE @]
               /\ cb_pc' = [cb_pc EXCEPT ![CbReader] = "retry"]
               /\ UNCHANGED <<cb_tail, cb_ret, cb_popped>>
    /\ UNCHANGED <<cbConst, cb_head, cb_loc, cb_pushed, next_item>>

CbNext ==
    \/ \E w \in CbWriters : push_load_head(w)
    \/ \E w \in CbWriters : push_check_full(w)
    \/ \E w \in CbWriters : push_write(w)
    \/ \E w \in CbWriters : push_cas(w)
    \/ \E w \in CbWriters : push_undo(w)
    \/ pop_load_tail
    \/ pop_check_empty
    \/ pop_read
    \/ pop_cas

\* a new buffer of either item type, used by one or two writers and a reader
CbInit ==
    /\ runtime = "CustomThread"
    /\ exporterKind = "completes"
    /\ config = BuildConfig(ReqQueueSize, ReqBatchSize)
    /\ processor = "Buffer"
    /\ BatchFields(1)
    /\ SimpleFields
    /\ ChainFields
    /\ BuilderFields(NoEnv)
    /\ PoolFields(1)
    /\ \E kind \in ItemKinds, writers \in CbWriters : CbFields(kind, writers)
    /\ SumFields

CbSpec == CbInit /\ [][CbNext]_vars

\* ---------------------------------------------------------- Sum aggregator
\* what no step of measure and delta changes
sumConst == <<runtime, exporterKind, batchVars, config, processor,
              simpleVars, chainVars, builderVars, poolVars, cbVars>>

\* the attribute sets measured with ("" is the empty one) and the key of
\* the overflow entry
SumAttrs == {"", "a", "b"}
STREAM_OVERFLOW_ATTRIBUTE_SET == "overflow"

OVERFLOW_BUCKET_INDEX == BUCKET_COUNT - 1

\* ValueMap::hash_to_bucket: "a" has a bucket of its own, "b" falls into
\* the bucket that also is the overflow bucket
hash_to_bucket(attrs) == IF attrs = "a" THEN 0 ELSE OVERFLOW_BUCKET_INDEX

\* number of attribute sets one stream keeps apart
STREAM_CARDINALITY_LIMIT == 1

is_under_cardinality_limit(size) == size < STREAM_CARDINALITY_LIMIT

\* total_unique_entries is a usize: fetch_add and fetch_sub wrap around
\* (the width is cut down to 16 bits)
UsizeModulus == 65536
wrapping(n) == n % UsizeModulus

\* the value of the measurement made by the k-th measure call: one base-4
\* digit per call, so that a sum tells how often each call is counted in it
Weight(k) == 4 ^ (k - 1)

\* entry += measurement, or the insertion of a new entry
bucket_add(bucket, key, measurement) ==
    IF key \in DOMAIN bucket
    THEN [bucket EXCEPT ![key] = @ + measurement]
    ELSE (key :> measurement) @@ bucket

RECURSIVE bucket_total(_)
\* the sum of the values of the data points made from a drained bucket
bucket_total(bucket) ==
    IF DOMAIN bucket = {} THEN 0
    ELSE LET k == CHOOSE key \in DOMAIN bucket : TRUE
         IN bucket[k] + bucket_total([j \in DOMAIN bucket \ {k} |-> bucket[j]])

\* what std::mem::replace leaves in the bucket, if it left the old map
mem_replace_keeps(bucket) == bucket

\* what std::mem::replace(&mut *bucket, Some(empty_bucket)) leaves in the
\* bucket
mem_replace(bucket) == EmptyBucket

\* measure, lines 76-78: without attributes the measurement is added to
\* no_attribute_value
measure_no_attributes(t) ==
    /\ processor = "Sum"
    /\ sum_pc[t] = "idle"
    /\ next_measure <= MaxMeasures
    /\ next_measure' = next_measure + 1
    /\ dirty' = TRUE
    /\ sum_loc' = [sum_loc EXCEPT ![t] = [attrs |-> "",
                                          measurement |-> Weight(next_measure)]]
    /\ no_attribute_value' = no_attribute_value + Weight(next_measure)
    /\ sum_pc' = [sum_pc EXCEPT ![t] = "store"]
    /\ UNCHANGED <<sumConst, sum_buckets, has_no_value_attribute_value,
                   total_unique_entries, drain_lock, cycles>>

\* measure, lines 79-80: the flag is set after the value was added
measure_store_flag(t) ==
    /\ sum_pc[t] = "store"
    /\ has_no_value_attribute_value' = TRUE
    /\ sum_pc' = [sum_pc EXCEPT ![t] = "idle"]
    /\ UNCHANGED <<sumConst, sum_buckets, no_attribute_value,
                   total_unique_entries, drain_lock, sum_loc, cycles,
                   next_measure, dirty>>

\* measure, lines 82-91: under the bucket's mutex an existing entry takes
\* the measurement; otherwise the mutex is released again
measure_existing_entry(t) ==
    /\ processor = "Sum"
    /\ sum_pc[t] = "idle"
    /\ next_measure <= MaxMeasures
    /\ next_measure' = next_measure + 1
    /\ dirty' = TRUE
    /\ \E attrs \in SumAttrs \ {""} :
          /\ sum_loc' = [sum_loc EXCEPT ![t] =
                           [attrs |-> attrs, measurement |-> Weight(next_measure)]]
          /\ IF attrs \in DOMAIN sum_buckets[hash_to_bucket(attrs)]
             THEN /\ sum_buckets' =
                       [sum_buckets EXCEPT ![hash_to_bucket(attrs)] =
                          bucket_add(@, attrs, Weight(next_measure))]
                  /\ sum_pc' = [sum_pc EXCEPT ![t] = "idle"]
             ELSE /\ sum_pc' = [sum_pc EXCEPT ![t] = "read_lock"]
                  /\ UNCHANGED sum_buckets
    /\ UNCHANGED <<sumConst, has_no_value_attribute_value, no_attribute_value,
                   total_unique_entries, drain_lock, cycles>>

\* measure, line 92: drain_lock.read(), which waits while delta holds the
\* write lock
measure_read_lock(t) ==
    /\ sum_pc[t] = "read_lock"
    /\ ~drain_lock.writer
    /\ drain_lock' = [drain_lock EXCEPT !.readers = @ \cup {t}]
    /\ sum_pc' = [sum_pc EXCEPT ![t] = "load"]
    /\ UNCHANGED <<sumConst, sum_buckets, has_no_value_attribute_value,
                   no_attribute_value, total_unique_entries, sum_loc, cycles,
                   next_measure, dirty>>

\* measure, lines 94-96 and 116-118: the count decides between the bucket
\* of the attributes and the overflow entry
measure_load_count(t) ==
    /\ sum_pc[t] = "load"
    /\ sum_pc' = [sum_pc EXCEPT ![t] =
                    IF is_under_cardinality_limit(total_unique_entries)
                    THEN "insert" ELSE "overflow"]
    /\ UNCHANGED <<sumConst, sum_buckets, has_no_value_attribute_value,
                   no_attribute_value, total_unique_entries, drain_lock,
                   sum_loc, cycles, next_measure, dirty>>

\* measure, lines 97-115, under the bucket's mutex: a vacant entry is
\* inserted if the count before fetch_add was under the limit (otherwise
\* the count is put back and the overflow entry is used), an occupied one
\* takes the measurement; returning releases the read lock
measure_insert(t) ==
    /\ sum_pc[t] = "insert"
    /\ LET attrs == sum_loc[t].attrs
           i == hash_to_bucket(attrs)
       IN IF attrs \notin DOMAIN sum_buckets[i]
             /\ ~is_under_cardinality_limit(total_unique_entries)
          THEN /\ sum_pc' = [sum_pc EXCEPT ![t] = "overflow"]
               /\ total_unique_entries' =
                    wrapping(wrapping(total_unique_entries + 1) + UsizeModulus - 1)
               /\ UNCHANGED <<sum_buckets, drain_lock>>
          ELSE /\ sum_buckets' = [sum_buckets EXCEPT ![i] =
                                    bucket_add(@, attrs, sum_loc[t].measurement)]
               /\ total_unique_entries' =
                    IF attrs \in DOMAIN sum_buckets[i]
                    THEN total_unique_entries
                    ELSE wrapping(total_unique_entries + 1)
               /\ drain_lock' = [drain_lock EXCEPT !.readers = @ \ {t}]
               /\ sum_pc' = [sum_pc EXCEPT ![t] = "idle"]
    /\ UNCHANGED <<sumConst, has_no_value_attribute_value, no_attribute_value,
                   sum_loc, cycles, next_measure, dirty>>

\* measure, lines 121-126: the measurement goes to the overflow entry of
\* the overflow bucket; returning releases the read lock
measure_overflow(t) ==
    /\ sum_pc[t] = "overflow"
    /\ sum_buckets' = [sum_buckets EXCEPT ![OVERFLOW_BUCKET_INDEX] =
                         bucket_add(@, STREAM_OVERFLOW_ATTRIBUTE_SET,
                                    sum_loc[t].measurement)]
    /\ drain_lock' = [drain_lock EXCEPT !.readers = @ \ {t}]
    /\ sum_pc' = [sum_pc EXCEPT ![t] = "idle"]
    /\ UNCHANGED <<sumConst, has_no_value_attribute_value, no_attribute_value,
                   total_unique_entries, sum_loc, cycles, next_measure, dirty>>

\* delta, lines 159-187: the data points are cleared and the flag is
\* swapped to false
delta_swap_flag ==
    /\ processor = "Sum"
    /\ sum_pc[Collector] = "idle"
    /\ Len(cycles) < MaxDeltas
    /\ has_no_value_attribute_value' = FALSE
    /\ sum_loc' = [sum_loc EXCEPT ![Collector] =
                     [data_points |-> 0, drained |-> <<>>]]
    /\ sum_pc' = [sum_pc EXCEPT ![Collector] =
                    IF has_no_value_attribute_value THEN "reset" ELSE "write_lock"]
    /\ dirty' = IF \A t \in Measurers : sum_pc[t] = "idle" THEN FALSE ELSE dirty
    /\ UNCHANGED <<sumConst, sum_buckets, no_attribute_value,
                   total_unique_entries, drain_lock, cycles, next_measure>>

\* delta, lines 188-194: a data point with
\* no_attribute_value.get_and_reset_value()
delta_get_and_reset_value ==
    /\ sum_pc[Collector] = "reset"
    /\ sum_loc' = [sum_loc EXCEPT ![Collector].data_points =
                     @ + no_attribute_value]
    /\ no_attribute_value' = 0
    /\ sum_pc' = [sum_pc EXCEPT ![Collector] = "write_lock"]
    /\ UNCHANGED <<sumConst, sum_buckets, has_no_value_attribute_value,
                   total_unique_entries, drain_lock, cycles, next_measure,
                   dirty>>

\* delta, line 198: drain_lock.write(), which waits for the readers
delta_write_lock ==
    /\ sum_pc[Collector] = "write_lock"
    /\ drain_lock.readers = {}
    /\ drain_lock' = [drain_lock EXCEPT !.writer = TRUE]
    /\ sum_pc' = [sum_pc EXCEPT ![Collector] = "drain"]
    /\ UNCHANGED <<sumConst, sum_buckets, has_no_value_attribute_value,
                   no_attribute_value, total_unique_entries, sum_loc, cycles,
                   next_measure, dirty>>

\* delta, lines 199-207: under its mutex the next bucket is replaced by an
\* empty map and the count is decreased by the length of what the bucket
\* now holds; after the last bucket the write lock is released
delta_drain_bucket ==
    /\ sum_pc[Collector] = "drain"
    /\ LET i == Len(sum_loc[Collector].drained)
           left == mem_replace(sum_buckets[i])
       IN /\ sum_loc' = [sum_loc EXCEPT ![Collector].drained =
                            Append(@, sum_buckets[i])]
          /\ sum_buckets' = [sum_buckets EXCEPT ![i] = left]
          /\ total_unique_entries' =
               wrapping(total_unique_entries + UsizeModulus
                          - Cardinality(DOMAIN left))
          /\ IF i = BUCKET_COUNT - 1
             THEN /\ drain_lock' = [drain_lock EXCEPT !.writer = FALSE]
                  /\ sum_pc' = [sum_pc EXCEPT ![Collector] = "points"]
             ELSE UNCHANGED <<drain_lock, sum_pc>>
    /\ UNCHANGED <<sumConst, has_no_value_attribute_value, no_attribute_value,
                   cycles, next_measure, dirty>>

\* delta, lines 209-243: a data point for every entry of the next drained
\* bucket, the count decreased by one for each; after the last bucket
\* delta returns the data points
delta_data_points ==
    /\ sum_pc[Collector] = "points"
    /\ LET bucket == Head(sum_loc[Collector].drained)
           points == sum_loc[Collector].data_points + bucket_total(bucket)
       IN /\ total_unique_entries' =
               wrapping(total_unique_entries + UsizeModulus
                          - Cardinality(DOMAIN bucket))
          /\ IF Len(sum_loc[Collector].drained) = 1
             THEN /\ cycles' = Append(cycles, points)
                  /\ sum_loc' = [sum_loc EXCEPT ![Collector] =
                                   [data_points |-> 0, drained |-> <<>>]]
                  /\ sum_pc' = [sum_pc EXCEPT ![Collector] = "idle"]
             ELSE /\ sum_loc' = [sum_loc EXCEPT ![Collector] =
                                   [data_points |-> points,
                                    drained |-> Tail(@.drained)]]
                  /\ UNCHANGED <<cycles, sum_pc>>
    /\ UNCHANGED <<sumConst, sum_buckets, has_no_value_attribute_value,
                   no_attribute_value, drain_lock, next_measure, dirty>>

SumNext ==
    \/ \E t \in Measurers : measure_no_attributes(t)
    \/ \E t \in Measurers : measure_store_flag(t)
    \/ \E t \in Measurers : measure_existing_entry(t)
    \/ \E t \in Measurers : measure_read_lock(t)
    \/ \E t \in Measurers : measure_load_count(t)
    \/ \E t \in Measurers : measure_insert(t)
    \/ \E t \in Measurers : measure_overflow(t)
    \/ delta_swap_flag
    \/ delta_get_and_reset_value
    \/ delta_write_lock
    \/ delta_drain_bucket
    \/ delta_data_points

\* a new Sum, two measuring threads and a collector
SumInit ==
    /\ runtime = "CustomThread"
    /\ exporterKind = "completes"
    /\ config = BuildConfig(ReqQueueSize, ReqBatchSize)
    /\ processor = "Sum"
    /\ BatchFields(1)
    /\ SimpleFields
    /\ ChainFields
    /\ BuilderFields(NoEnv)
    /\ PoolFields(1)
    /\ CbFields("i32", 1)
    /\ SumFields

SumSpec == SumInit /\ [][SumNext]_vars

\* =================================================================== claims

\* C1: the message queue never holds more than max_queue_size messages that
\* the worker has not yet consumed (an emit on a full queue enqueues nothing).
C1_QueueWithinMaxQueueSize == Len(queue) <= max_queue_size

\* C2: emit never waits for the worker and returns no error: in every
\* reachable state a caller that is not inside another call can complete an
\* emit in one step of its own, and every emit returned unit.
C2_EmitNeverWaits ==
    \A c \in Callers :
        /\ (cpc[c] = "idle" /\ nextRec <= MaxRecords) => ENABLED emit(c)
        /\ ret[c].op = "emit" => ret[c].val = "Unit"

\* an emit was refused by a full queue while the worker was in the middle
\* of an export, and returned
C2_Witness ==
    /\ wpc = "exporting"
    /\ \E c \in Callers : ret[c].op = "emit"
    /\ \E e \in errSink : e[1] = "ChannelFull" /\ e[2] = "emit"

\* C3 as stated: when a force_flush made while the worker was running has
\* returned, every record its caller had enqueued before the call has been
\* handed to exporter.export.
C3_FlushReturnsAfterExport ==
    \A c \in Callers :
        (ret[c].op = "force_flush" /\ atCall[c].running)
            => atCall[c].pend \subseteq Handed

\* C3 amended: when force_flush returns the worker's reply, every record its
\* caller had enqueued before the call has been handed to exporter.export,
\* and the value returned is the result of the export done for that Flush.
C3_FlushReplyAfterExport ==
    \A c \in Callers :
        (ret[c].op = "force_flush" /\ ret[c].val \in WorkerResults)
            => /\ atCall[c].pend \subseteq Handed
               /\ lastExport.id = ret[c].id => ret[c].val = lastExport.res

\* a force_flush returned Ok after exporting a record of its caller
C3_Witness ==
    \E c \in Callers :
        /\ ret[c].op = "force_flush"
        /\ ret[c].val = "Ok"
        /\ atCall[c].pend # {}
        /\ lastExport.id = ret[c].id
        /\ lastExport.n > 0

\* C4: on Shutdown the worker exports what is left in its buffer, then calls
\* exporter.shutdown, then sends the result, then leaves the loop; so when
\* shutdown returns Ok every record enqueued before the Shutdown message has
\* been handed to the exporter and exporter.shutdown has been called.
C4_ShutdownOrder ==
    /\ wpc \in {"sd_shutdown", "sd_send", "sd_break"} => logs = <<>>
    /\ wpc \in {"sd_send", "sd_break"} => shutdownCalls >= 1
    /\ \A c \in Callers :
        /\ (cpc[c] = "shutdown_wait" /\ reply[c] \in WorkerResults)
              => (shutdownCalls >= 1 /\ wpc \in {"sd_break", "done"})
        /\ (ret[c].op = "shutdown" /\ ret[c].val = "Ok")
              => (atCall[c].pend \subseteq Handed /\ shutdownCalls >= 1)

\* shutdown returned Ok and the Shutdown export carried records
C4_Witness ==
    \E c \in Callers :
        /\ ret[c].op = "shutdown"
        /\ ret[c].val = "Ok"
        /\ atCall[c].pend # {}
        /\ \E i \in DOMAIN exportCalls : exportCalls[i].trigger = "shutdown"

\* C5: after a shutdown call has completed, the worker makes no export any
\* more, no record emitted afterwards reaches the exporter, and every emit
\* returns unit.
C5_EmitAfterShutdownInert ==
    /\ sdRet = "completed" => wpc \in {"sd_break", "done"}
    /\ late \cap Handed = {}
    /\ \A c \in Callers : ret[c].op = "emit" => ret[c].val = "Unit"

\* a record was emitted after shutdown had returned Ok
C5_Witness ==
    /\ late # {}
    /\ \E c \in Callers : ret[c].op = "emit"
    /\ \E e \in errSink : e[1] = "ChannelClosed" /\ e[2] = "emit"

\* C6: once a shutdown call has returned, with Ok or with an error, no
\* further export call is made.
C6_NoExportAfterShutdownReturned ==
    [][sdRet # "none" => exportCalls' = exportCalls]_vars

\* C7: once the worker has terminated, a force_flush or shutdown call
\* returns an error in the same step (the caller never waits for a reply)
\* and the exporter is not called.
C7_CallAfterTerminationFails ==
    [][wpc = "done" =>
        /\ exportCalls' = exportCalls
        /\ shutdownCalls' = shutdownCalls
        /\ \A c \in Callers :
            cpc[c] = "idle" =>
                /\ cpc'[c] = "idle"
                /\ (ncalls' # ncalls /\ ret'[c].id = ncalls'
                     /\ ret'[c].op \in {"force_flush", "shutdown"})
                      => ret'[c].val = "ChannelClosed"]_vars

\* a force_flush or shutdown made after termination has returned its error
C7_Witness ==
    /\ wpc = "done"
    /\ \E c \in Callers :
        /\ ret[c].op \in {"force_flush", "shutdown"}
        /\ ret[c].val = "ChannelClosed"
        /\ ~atCall[c].running

\* C8: with a worker on a thread of its own, every force_flush and every
\* shutdown call eventually returns, and the worker terminates after a
\* Shutdown message was accepted.
C8_CallsReturn ==
    /\ \A c \in Callers : (cpc[c] # "idle") ~> (cpc[c] = "idle")
    /\ (\E i \in DOMAIN queue : queue[i].type = "Shutdown") ~> (wpc = "done")

\* a call whose message was queued behind a Shutdown message has returned
C8_Witness ==
    /\ wpc = "done"
    /\ \E c \in Callers : ret[c].val = "Canceled"

\* C9: when the exporter completes the export before the timer elapses,
\* export_with_timeout returns the export's own result.
C9_ExportWinsRace ==
    [][(wpc = "exporting" /\ exportDone # "None" /\ wpc' # "exporting")
          => lastExport'.res = exportDone]_vars

\* C10 as stated, for the calls the worker replied to: with an exporter
\* whose export never completes, a force_flush made after its caller
\* enqueued a record returns ExportTimedOut.
C10_FlushReturnsTimeout ==
    \A c \in Callers :
        (exporterKind = "never" /\ ret[c].op = "force_flush"
            /\ atCall[c].pend # {} /\ ret[c].val \in WorkerResults)
            => ret[c].val = "ExportTimedOut"

\* C10 amended: with an exporter whose export never completes, every
\* force_flush eventually returns, and the reply is ExportTimedOut when the
\* worker's buffer held a record when the Flush was handled (Ok when the
\* buffer was empty).
C10_FlushReturnsAndTimesOut ==
    /\ \A c \in Callers :
        (exporterKind = "never" /\ cpc[c] = "flush_wait") ~> (cpc[c] = "idle")
    /\ [](\A c \in Callers :
            (exporterKind = "never" /\ ret[c].op = "force_flush"
                /\ ret[c].val \in WorkerResults /\ lastExport.id = ret[c].id)
                => ret[c].val = IF lastExport.n > 0 THEN "ExportTimedOut"
                                ELSE "Ok")

\* a force_flush on the never-completing exporter returned ExportTimedOut
C10_Witness ==
    /\ exporterKind = "never"
    /\ \E c \in Callers :
        /\ ret[c].op = "force_flush"
        /\ ret[c].val = "ExportTimedOut"
        /\ atCall[c].pend # {}

\* C11: the batch of an export is taken out of the worker's buffer before the
\* export starts and is never put back, whatever the export's outcome (a
\* timeout included): no record handed to exporter.export is in the buffer or
\* in the queue, and no record is in two export calls.
C11_TimedOutBatchDiscarded ==
    /\ SeqToSet(logs) \cap Handed = {}
    /\ \A k \in DOMAIN queue :
          queue[k].type = "ExportLog" => queue[k].rec \notin Handed
    /\ \A i, j \in DOMAIN exportCalls :
          i # j => SeqToSet(exportCalls[i].batch)
                     \cap SeqToSet(exportCalls[j].batch) = {}

\* the export made at a tick timed out, and a later export call was made
\* for a flush or a shutdown
C11_Witness ==
    /\ Len(exportCalls) = 2
    /\ exportCalls[1].trigger = "tick"
    /\ exportCalls[2].trigger \in {"flush", "shutdown"}
    /\ <<"ExportTimedOut", "tick", 0>> \in errSink

\* C12: at most one method of an exporter is executing at any time. While
\* the worker of a BatchLogProcessor awaits an export it starts no other
\* export and calls neither set_resource nor shutdown on the exporter; an
\* export abandoned on timeout is over (its future is dropped) before the
\* worker goes on. On a SimpleLogProcessor the calls of concurrent threads
\* into the exporter exclude each other.
C12_OneExporterMethodAtATime ==
    /\ [](Cardinality(sActive) <= 1)
    /\ [][wpc = "exporting" =>
            /\ exportCalls' = exportCalls
            /\ shutdownCalls' = shutdownCalls
            /\ exporterRes' = exporterRes]_vars

\* a thread is inside exporter.export while another thread, which has set
\* is_shutdown, and a third one wait for the exporter
C12_Witness ==
    /\ \E t \in Threads : <<t, "export">> \in sActive
    /\ \E t \in Threads : spc[t] = "sd_lock"
    /\ \E t \in Threads : spc[t] = "emit_lock"

\* C13: when the worker takes an ExportLog message that brings its buffer to
\* max_export_batch_size records, it hands the whole buffer to
\* exporter.export in that very step, which consumes no tick, and the buffer
\* is empty afterwards.
C13_FullBufferExportedAtOnce ==
    [][(/\ wpc = "recv"
        /\ queue # <<>>
        /\ queue' = Tail(queue)
        /\ Head(queue).type = "ExportLog"
        /\ Len(logs) + 1 = max_export_batch_size)
          => /\ logs' = <<>>
             /\ exportCalls' = Append(exportCalls,
                    [batch |-> Append(logs, Head(queue).rec), trigger |-> "size"])
             /\ tickPending' = tickPending]_vars

\* the latest call of export_with_timeout was an export triggered by the
\* buffer size, no tick is pending, and the message the worker takes next
\* fills the buffer again: a second export follows with no tick in between
C13_Witness ==
    /\ exportCalls # <<>>
    /\ exportCalls[Len(exportCalls)].trigger = "size"
    /\ lastExport.n = Len(exportCalls[Len(exportCalls)].batch)
    /\ lastExport.res = "Ok"
    /\ wpc = "recv"
    /\ ~tickPending
    /\ "msg" \in Sources
    /\ Head(queue).type = "ExportLog"
    /\ Len(logs) + 1 = max_export_batch_size

\* C14: on CustomThreadRuntime, every batch handed to exporter.export holds
\* at most max_export_batch_size records, for every BatchConfig the builder
\* can produce.
C14_BatchWithinMaxExportBatchSize ==
    runtime = "CustomThread" =>
        \A i \in DOMAIN exportCalls :
            Len(exportCalls[i].batch) <= max_export_batch_size

\* C15: on CustomThreadRuntime, when the worker has handled a tick, every
\* record that was enqueued before has been handed to exporter.export (a
\* record waits for the next tick at most).
C15_ExportedAtNextTick ==
    [][(/\ runtime = "CustomThread"
        /\ wpc = "recv"
        /\ tickPending
        /\ ~tickPending')
          => EnqueuedAll \subseteq Handed']_vars

\* C16: exporter.export is never called with an empty batch: when the worker
\* handles a tick, a Flush or a Shutdown while its buffer is empty, it makes
\* no export call and the result is Ok (sent as the reply of a Flush, kept
\* as the result of a Shutdown, and nothing goes to the error sink).
C16_NoEmptyExport ==
    /\ [](\A i \in DOMAIN exportCalls : exportCalls[i].batch # <<>>)
    /\ [][(/\ wpc = "recv"
            /\ logs = <<>>
            /\ \/ tickPending /\ ~tickPending'
               \/ /\ queue # <<>>
                  /\ queue' = Tail(queue)
                  /\ Head(queue).type \in {"Flush", "Shutdown"})
              => /\ exportCalls' = exportCalls
                 /\ lastExport'.n = 0
                 /\ lastExport'.res = "Ok"
                 /\ errSink' = errSink
                 /\ wpc' = "sd_shutdown" => result' = "Ok"
                 /\ \A c \in Callers :
                       reply'[c] # reply[c] => reply'[c] = "Ok"]_vars

\* a force_flush whose Flush was handled with an empty buffer returned Ok,
\* and the exporter has not been called
C16_Witness ==
    /\ exportCalls = <<>>
    /\ \E c \in Callers :
        /\ ret[c].op = "force_flush"
        /\ ret[c].val = "Ok"
        /\ lastExport.id = ret[c].id
        /\ lastExport.n = 0

\* C17: when the export made for a Flush message is over, its result goes to
\* one place: for a Flush with a reply channel it is sent on that channel,
\* Ok or error, and the error sink gets nothing; for the Flush(None) of a
\* tick an error goes to the error sink, an Ok goes nowhere, and no reply
\* channel gets anything.
C17_FlushResultToOnePlace ==
    [][LET viaSelect == wpc = "exporting" /\ wpc' = "recv" /\ cur.type = "Flush"
           viaMsg == /\ wpc = "recv" /\ wpc' = "recv"
                     /\ queue # <<>> /\ queue' = Tail(queue)
                     /\ Head(queue).type = "Flush"
           viaTick == /\ wpc = "recv" /\ wpc' = "recv"
                      /\ tickPending /\ ~tickPending'
           ch == IF viaSelect THEN cur.ch
                 ELSE IF viaMsg THEN Head(queue).ch ELSE "None"
           res == lastExport'.res
       IN (viaSelect \/ viaMsg \/ viaTick) =>
            IF ch # "None"
            THEN /\ reply' = [reply EXCEPT ![ch] = res]
                 /\ errSink' = errSink
            ELSE /\ reply' = reply
                 /\ errSink' = IF res = "Ok" THEN errSink
                               ELSE errSink \cup {<<res, "tick", 0>>}]_vars

\* the export of a tick failed and went to the error sink; the export of a
\* force_flush failed and was returned to its caller only
C17_Witness ==
    /\ errSink = {<<"ExportFailed", "tick", 0>>}
    /\ \E c \in Callers :
        /\ ret[c].op = "force_flush"
        /\ ret[c].val = "ExportFailed"
        /\ lastExport.id = ret[c].id
        /\ lastExport.n > 0

\* C18: the worker leaves Running only in a step that takes a Shutdown
\* message from the queue; from ShuttingDown it goes to Terminated only; once
\* Terminated it stays so, takes no message and no tick, and calls no
\* exporter method.
C18_OnlyShutdownTerminates ==
    [][/\ (WorkerState = "Running" /\ WorkerState' # "Running")
            => /\ WorkerState' = "ShuttingDown"
               /\ queue # <<>>
               /\ queue' = Tail(queue)
               /\ Head(queue).type = "Shutdown"
       /\ WorkerState = "ShuttingDown"
            => WorkerState' \in {"ShuttingDown", "Terminated"}
       /\ WorkerState = "Terminated"
            => /\ WorkerState' = "Terminated"
               /\ queue = <<>>
               /\ UNCHANGED <<queue, tickPending, logs, cur, result,
                              exportCalls, lastExport, shutdownCalls,
                              exporterRes>>]_vars

\* the worker went on after the export of a tick had failed or timed out,
\* and has ended after a shutdown that returned Ok
C18_Witness ==
    /\ WorkerState = "Terminated"
    /\ \E e \in errSink :
          e[1] \in {"ExportFailed", "ExportTimedOut"} /\ e[2] = "tick"
    /\ \E c \in Callers : ret[c].op = "shutdown" /\ ret[c].val = "Ok"

\* C19: the records of one producer reach the exporter in the order they
\* were emitted (records are numbered in emit order): of two records of the
\* same producer, the one in the earlier export call, or at the earlier
\* place of the same batch, was emitted first.
C19_SenderOrderKept ==
    \A c \in Callers :
        \A i, j \in DOMAIN exportCalls :
            \A p \in DOMAIN exportCalls[i].batch,
               q \in DOMAIN exportCalls[j].batch :
                (/\ exportCalls[i].batch[p] \in EnqueuedBy(c)
                 /\ exportCalls[j].batch[q] \in EnqueuedBy(c)
                 /\ (i < j \/ (i = j /\ p < q)))
                    => exportCalls[i].batch[p] < exportCalls[j].batch[q]

\* one producer enqueued two records and both have been handed to the
\* exporter, in one batch or in two export calls
C19_Witness ==
    /\ \E c \in Callers : Cardinality(EnqueuedBy(c)) = 2
    /\ Cardinality(Handed) = 2
    /\ exportCalls # <<>>

\* C20: emit_all calls emit on the processors in registration order, each
\* once, with the one record: the processor at place j is given the record
\* as emit_all got it plus the marks of all the processors before j that
\* change it, in their order; when emit_all returns every processor has been
\* called.
C20_ChainEmitInOrder ==
    /\ [](\A k \in DOMAIN observed :
            /\ observed[k].proc = k
            /\ observed[k].saw = observed[1].saw \o MarksBefore(k))
    /\ [][(cop = "emit_all" /\ cop' = "idle")
            => /\ Len(observed') = Len(processors)
               /\ data' = observed[1].saw \o MarksBefore(Len(processors) + 1)]_vars

\* emit_all has returned on a chain of three processors of which the second
\* and the third change the record
C20_Witness ==
    /\ cret.op = "emit_all"
    /\ Len(processors) = 3
    /\ Len(observed) = 3
    /\ processors[2].mutates
    /\ processors[3].mutates
    /\ observed[3].saw = <<0, 2>>
    /\ data = <<0, 2, 3>>

\* C21: when force_flush_all or shutdown_all returns, the operation has been
\* invoked on every processor of the chain, whatever the results were.
C21_CalledOnEveryProcessor ==
    [][(cop \in {"force_flush_all", "shutdown_all"} /\ cop' = "idle")
          => invoked' = [i \in 1..Len(processors) |-> i]]_vars

\* C22: force_flush_all and shutdown_all return Ok exactly when no processor
\* of the chain fails the operation, and otherwise return the failure of the
\* first processor, in registration order, that fails.
C22_FirstFailureReturned ==
    [][(cop \in {"force_flush_all", "shutdown_all"} /\ cop' = "idle")
          => /\ cret'.op = cop
             /\ cret'.val = "Ok" <=> Failing(cop) = {}
             /\ Failing(cop) # {}
                  => /\ cret'.val = "Err"
                     /\ cret'.by \in Failing(cop)
                     /\ \A i \in Failing(cop) : cret'.by <= i]_vars

\* shutdown_all returned the failure of the second processor of a chain
\* whose third processor fails too
C22_Witness ==
    /\ cop = "idle"
    /\ cret.op = "shutdown_all"
    /\ cret.val = "Err"
    /\ cret.by = 2
    /\ Len(processors) = 3
    /\ Failing("shutdown_all") = {2, 3}

\* C23: SimpleLogProcessor never calls exporter.export after exporter.shutdown
\* has been called on that exporter, in every interleaving of emit and
\* shutdown calls of different threads.
C23_NoExportAfterExporterShutdown ==
    \A i \in DOMAIN sExports : sExports[i].sd = 0

\* the exporter.export calls, up to now, whose batch holds the record rec
ExportsOf(rec) ==
    {i \in DOMAIN sExports : \E j \in DOMAIN sExports[i].batch :
                                 sExports[i].batch[j] = rec}

SetResourceCalledOnRunning(k) ==
    /\ \E c \in Callers : ret[c].op = "set_resource" /\ ret[c].id = k
    /\ ncalls = k
    /\ WorkerState = "Running"
    /\ \A i \in DOMAIN queue : queue[i].type # "Shutdown"

\* C25: after set_resource(r) is called on a running BatchLogProcessor, the
\* exporter's set_resource is eventually invoked with r, whatever the state
\* of the processor at the call.
C25_ResourceReachesExporter ==
    \A k \in 1..MaxCalls : SetResourceCalledOnRunning(k) ~> (exporterRes = k)

\* ------------------------------------- callers on a cooperative executor
\* a wait for the reply that yields the thread to other tasks (an await)
block_on_yielding(pc) == FALSE

\* futures_executor::block_on(res_receiver) in force_flush and shutdown: the
\* caller at pc holds its thread until the reply is there
block_on(pc) == pc \in {"flush_wait", "shutdown_wait"}

\* the callers are tasks of one single-threaded cooperative executor: its
\* thread is free for another task when no caller holds it
CallerThreadFree == \A c \in Callers : ~block_on(cpc[c])

\* the worker and its timers are tasks of the callers' executor when spawned
\* by the Tokio runtime, and have threads of their own on CustomThreadRuntime
WorkerScheduled == runtime = "CustomThread" \/ CallerThreadFree

CoopNext ==
    \/ \E c \in Callers : CallerThreadFree /\ emit(c)
    \/ \E c \in Callers : CallerThreadFree /\ force_flush(c)
    \/ \E c \in Callers : CallerThreadFree /\ shutdown(c)
    \/ \E c \in Callers : CallerThreadFree /\ set_resource(c)
    \/ \E c \in Callers : block_on_returns(c)
    \/ \E src \in {"msg", "tick"} : WorkerScheduled /\ WorkerNext(src)
    \/ WorkerScheduled /\ WorkerSelect
    \/ WorkerScheduled /\ WorkerExporterShutdown
    \/ WorkerScheduled /\ WorkerShutdownReply
    \/ WorkerScheduled /\ WorkerExit
    \/ WorkerScheduled /\ ExporterCompletes
    \/ WorkerScheduled /\ TimerFires
    \/ WorkerScheduled /\ Tick

CoopSpec == Init /\ [][CoopNext]_vars

\* a caller is inside block_on(res_receiver) on the executor thread that the
\* worker is a task of
CallerBlocksWorkerThread ==
    /\ runtime = "Tokio"
    /\ \E c \in Callers : cpc[c] \in {"flush_wait", "shutdown_wait"}

\* C26: when the caller of force_flush or shutdown and the worker are tasks
\* of the same single-threaded cooperative runtime, the wait for the reply
\* starves the worker: from a state in which the caller blocks on the reply
\* no step is ever taken, by the worker or by the caller.
C26_BlockedCallerStarvesWorker ==
    [][~CallerBlocksWorkerThread]_vars

\* shutdown blocks on the reply while its Shutdown message waits in the queue
\* for the worker, which is ready to receive
C26_Witness ==
    /\ CallerBlocksWorkerThread
    /\ \E c \in Callers : cpc[c] = "shutdown_wait" /\ reply[c] = "None"
    /\ \E i \in DOMAIN queue : queue[i].type = "Shutdown"
    /\ wpc = "recv"

\* C27: whatever values the BatchConfigBuilder was given (defaults,
\* environment variables, with_* calls), build() yields max_export_batch_size
\* = min(requested, max_queue_size), hence max_export_batch_size <=
\* max_queue_size, and leaves the three other options as requested.
C27_BuildClampsBatchSize ==
    built.made
      => /\ built.max_export_batch_size
              = Min(builder.max_export_batch_size, builder.max_queue_size)
         /\ built.max_export_batch_size <= built.max_queue_size
         /\ built.max_queue_size = builder.max_queue_size
         /\ built.scheduled_delay = builder.scheduled_delay
         /\ built.max_export_timeout = builder.max_export_timeout

\* build() was called on a builder whose batch size, given by a with_* call,
\* is above its queue size, and made a BatchConfig with the queue size as
\* batch size
C27_Witness ==
    /\ built.made
    /\ builtBy = "build"
    /\ nwith > 0
    /\ builder.max_export_batch_size > builder.max_queue_size
    /\ built.max_export_batch_size = builder.max_queue_size

\* the text is a decimal numeral: digits only, after at most one "+"
IsNumeral(text) ==
    LET digits == IF text # <<>> /\ Head(text) = "+" THEN Tail(text) ELSE text
    IN  /\ digits # <<>>
        /\ \A i \in DOMAIN digits : \E d \in DOMAIN DigitChars : DigitChars[d] = digits[i]

\* the number a decimal numeral stands for
RECURSIVE NumeralValue(_)
NumeralValue(text) ==
    IF text = <<>> THEN 0
    ELSE IF text[Len(text)] = "+" THEN 0
    ELSE 10 * NumeralValue(SubSeq(text, 1, Len(text) - 1))
           + to_digit(text[Len(text)])

\* what a builder made by default() must hold for the option of variable
\* name, whose default is dflt
ExpectedOption(name, dflt) ==
    IF env[name].set /\ IsNumeral(env[name].text)
    THEN NumeralValue(env[name].text)
    ELSE dflt

\* C28: for each of the four options, an environment variable holding a
\* parseable value replaces the value the builder held, an unset or
\* unparseable one leaves that value as it was, and the construction does not
\* fail for any environment.
C28_EnvOverridesOrIsIgnored ==
    /\ [][(~builder.made /\ builder'.made)
            => /\ builder'.max_queue_size
                    = ExpectedOption("OTEL_BLRP_MAX_QUEUE_SIZE",
                                     BuilderDefaults.max_queue_size)
               /\ builder'.scheduled_delay
                    = ExpectedOption("OTEL_BLRP_SCHEDULE_DELAY",
                                     BuilderDefaults.scheduled_delay)
               /\ builder'.max_export_batch_size
                    = ExpectedOption("OTEL_BLRP_MAX_EXPORT_BATCH_SIZE",
                                     BuilderDefaults.max_export_batch_size)
               /\ builder'.max_export_timeout
                    = ExpectedOption("OTEL_BLRP_EXPORT_TIMEOUT",
                                     BuilderDefaults.max_export_timeout)]_vars
    /\ [](~builder.made => ENABLED BatchConfigBuilder_default)

\* a builder was made in an environment with one variable holding a numeral,
\* one holding a text that is no numeral and one not set
C28_Witness ==
    /\ builder.made
    /\ nwith = 0
    /\ env["OTEL_BLRP_MAX_QUEUE_SIZE"] = Text(<<"1", "2">>)
    /\ builder.max_queue_size = 12
    /\ env["OTEL_BLRP_SCHEDULE_DELAY"] = Text(<<"4", " ">>)
    /\ builder.scheduled_delay = OTEL_BLRP_SCHEDULE_DELAY_DEFAULT
    /\ env["OTEL_BLRP_EXPORT_TIMEOUT"] = Unset
    /\ builder.max_export_timeout = OTEL_BLRP_EXPORT_TIMEOUT_DEFAULT

\* C29: with none of the four OTEL_BLRP_* variables set, BatchConfig::default()
\* has max_queue_size 2048, scheduled_delay 1000 ms, max_export_batch_size 512
\* and max_export_timeout 30000 ms.
C29_DefaultsWithoutEnv ==
    (env = NoEnv /\ builtBy = "BatchConfig::default")
      => /\ built.made
         /\ built.max_queue_size = 2048
         /\ built.scheduled_delay = 1000
         /\ built.max_export_batch_size = 512
         /\ built.max_export_timeout = 30000

\* BatchConfig::default() was called with no variable set
C29_Witness ==
    /\ env = NoEnv
    /\ builtBy = "BatchConfig::default"
    /\ built.made

\* how many times x is in the sequence s
RECURSIVE Occurrences(_, _)
Occurrences(s, x) ==
    IF s = <<>> THEN 0
    ELSE (IF Head(s) = x THEN 1 ELSE 0) + Occurrences(Tail(s), x)

\* how many times record r was passed to exporter.export in the calls from
\* the n-th on backwards
RECURSIVE ExportedTimes(_, _)
ExportedTimes(r, n) ==
    IF n = 0 THEN 0
    ELSE Occurrences(exportCalls[n].batch, r) + ExportedTimes(r, n - 1)

\* how many ExportLog messages of the queue carry record r
QueuedTimes(r) ==
    Cardinality({k \in DOMAIN queue :
                    queue[k].type = "ExportLog" /\ queue[k].rec = r})

C31_HandlesWhicheverIsAvailable ==
    wpc = "recv"
      => /\ queue # <<>> => ENABLED WorkerNext("msg")
         /\ tickPending => ENABLED WorkerNext("tick")

\* C32: the result force_flush returns is the result of the export made
\* while its own Flush message is handled, whatever earlier exports did: Ok
\* when the buffer is empty then, else what exporter.export or the timeout
\* gives for that batch; the error sink, where the errors of earlier size- or
\* tick-triggered exports are, neither changes nor counts.
C32_FlushReturnsOwnExportResult ==
    [][/\ (/\ wpc = "recv" /\ queue # <<>> /\ queue' = Tail(queue)
            /\ Head(queue).type = "Flush")
           => LET c == Head(queue).ch IN
              /\ errSink' = errSink
              /\ logs = <<>> => reply'[c] = "Ok" /\ exportCalls' = exportCalls
              /\ logs # <<>>
                   => /\ exportCalls' = Append(exportCalls,
                               [batch |-> logs, trigger |-> "flush"])
                      /\ \/ wpc' = "exporting" /\ reply'[c] = reply[c]
                         \/ wpc' = "recv" /\ reply'[c] \in {"Ok", "ExportFailed"}
       /\ (wpc = "exporting" /\ wpc' = "recv" /\ cur.type = "Flush"
             /\ cur.ch # "None")
           => /\ errSink' = errSink
              /\ reply'[cur.ch] = SelectResult(exportDone, timerFired)
       /\ \A c \in Callers :
             (cpc[c] = "flush_wait" /\ cpc'[c] = "idle")
               => ret'[c].val = reply[c]]_vars

\* force_flush returned Ok, its own export having found the buffer empty,
\* after the one export made before, at a tick or for a full buffer, of a
\* record its caller had emitted failed or timed out and went to the sink
C32_Witness ==
    \E c \in Callers :
        /\ ret[c].op = "force_flush"
        /\ ret[c].val = "Ok"
        /\ cpc[c] = "idle"
        /\ lastExport.id = ret[c].id
        /\ lastExport.n = 0
        /\ Len(exportCalls) = 1
        /\ exportCalls[1].trigger \in {"tick", "size"}
        /\ SeqToSet(exportCalls[1].batch) \cap atCall[c].pend # {}
        /\ \E e \in errSink : e[1] \in {"ExportFailed", "ExportTimedOut"}
                                /\ e[2] = exportCalls[1].trigger

\* C33: a record emitted after a SetResource message was accepted by the
\* queue is handed to exporter.export only after exporter.set_resource was
\* called with that resource; handling SetResource exports nothing and
\* leaves the buffer as it is, so records emitted before it can be exported
\* after it.
C33_ResourceBeforeLaterRecords ==
    /\ [](\A e \in enq :
            e[1] \in Handed
              => \A k \in e[3] : /\ k \notin PendingResources(queue)
                                 /\ exporterRes >= k)
    /\ [][(/\ wpc = "recv" /\ queue # <<>> /\ queue' = Tail(queue)
            /\ Head(queue).type = "SetResource")
           => /\ exporterRes' = Head(queue).id
              /\ logs' = logs
              /\ exportCalls' = exportCalls]_vars

\* a record emitted while a SetResource message was waiting in the queue
\* has been exported, the exporter holding that resource; the record emitted
\* before that message was exported with it, after the resource was set
C33_Witness ==
    \E e, f \in enq :
        /\ e[3] # {}
        /\ e[1] \in Handed
        /\ exporterRes \in e[3]
        /\ f[3] = {}
        /\ f[1] < e[1]
        /\ \E i \in DOMAIN exportCalls :
              {e[1], f[1]} \subseteq SeqToSet(exportCalls[i].batch)

\* C34: under repeated or concurrent shutdown calls exporter.shutdown is
\* called at most once, the worker's result goes to one caller at most (the
\* one whose Shutdown message the worker handled), and every other shutdown
\* call returns an error.
C34_OneShutdownTakesEffect ==
    /\ [](shutdownCalls <= 1)
    /\ [][\A c \in Callers :
            (ret'[c] # ret[c] /\ ret'[c].op = "shutdown")
              => IF cur.type = "Shutdown" /\ cur.id = ret'[c].id
                 THEN /\ ret'[c].val = result
                      /\ result \in WorkerResults
                 ELSE ret'[c].val \in {"ChannelFull", "ChannelClosed",
                                        "Canceled"}]_vars

\* two shutdown calls were under way together: one returned the worker's
\* result, the other one an error, and exporter.shutdown was called once
C34_Witness ==
    /\ shutdownCalls = 1
    /\ \E c, d \in Callers :
          /\ c # d
          /\ ret[c].op = "shutdown"
          /\ ret[c].id = cur.id
          /\ ret[c].val = "Ok"
          /\ ret[d].op = "shutdown"
          /\ ret[d].val = "Canceled"

\* C35: on a CustomThreadRuntime with N worker threads the worker task of
\* every BatchLogProcessor built on it eventually starts running, however
\* many worker tasks spawned earlier are still running, and a force_flush or
\* shutdown on any of these processors eventually returns.
C35_EveryWorkerStarts ==
    \A p \in PoolProcessors :
        /\ (pworker[p] = "queued") ~> (pworker[p] \in {"running", "done"})
        /\ (pcall[p] # "idle") ~> (pcall[p] = "idle")

\* C36: a buffer of CAPACITY N accepts exactly N consecutive pushes into the
\* empty buffer; the push after them is rejected with BufferFull, which
\* carries the rejected item, and the stored items are left as they were.
C36_AcceptsCapacityPushes ==
    [][cb_writers = 1 /\ cb_popped = <<>> /\ cb_pc[1] \in {"check", "cas"}
          /\ cb_pc'[1] = "idle"
       => /\ cb_ret'[1].kind =
               (IF next_item - 1 <= CAPACITY THEN "Ok" ELSE "BufferFull")
          /\ cb_ret'[1].kind = "BufferFull"
               => /\ cb_ret'[1].item = Item(cb_loc[1].arg)
                  /\ cb_data' = cb_data]_vars

\* C37: with one writer and one reader the buffer is a FIFO queue: pop
\* returns the pushed items in the order of their pushes, pop returns
\* BufferEmpty when the buffer is empty, and the buffer is empty again once
\* as many items were popped as were pushed.
C37_SingleWriterFifo ==
    /\ [](cb_writers = 1
            => /\ Len(cb_popped) <= Len(cb_pushed)
               /\ \A i \in 1..Len(cb_popped) : cb_popped[i] = Item(cb_pushed[i])
               /\ Len(cb_popped) = Len(cb_pushed) => cb_head = cb_tail)
    /\ [][cb_writers = 1 /\ cb_pc[CbReader] = "check"
            /\ cb_pc'[CbReader] # "check"
          => (cb_pc'[CbReader] = "idle" /\ cb_ret'[CbReader].kind = "BufferEmpty"
                <=> Len(cb_popped) = Len(cb_pushed))]_vars

\* number of times value v was returned by pop
PoppedTimes(v) == Cardinality({i \in 1..Len(cb_popped) : cb_popped[i].val = v})

\* number of push(v) calls that returned Ok
PushedTimes(v) == Cardinality({i \in 1..Len(cb_pushed) : cb_pushed[i] = v})

\* C38: with several writers and one reader every value whose push returned
\* Ok is popped exactly once: no popped value occurs more often than it was
\* pushed, and once every call has returned and the buffer is empty the
\* popped values are the pushed values, each as often as it was pushed.
C38_PoppedEqualsPushed ==
    /\ \A v \in 0..MaxPushes : PoppedTimes(v) <= 1
    /\ (\A t \in CbThreads : cb_pc[t] = "idle") /\ cb_head = cb_tail
         => \A v \in 0..MaxPushes : PoppedTimes(v) = PushedTimes(v)

\* in how many of the finished collections the k-th measurement is counted
\* (with multiplicity)
RECURSIVE ReportedTimes(_, _)
ReportedTimes(k, n) ==
    IF n = 0 THEN 0
    ELSE ((cycles[n] \div Weight(k)) % 4) + ReportedTimes(k, n - 1)

====
